---- MODULE Spec2Model ----
(***************************************************************************)
(* A model of the FastAPI energy-contract backend: the PPA quotation list  *)
(* and detail endpoints (api/ppa_quotations.py), their presentation        *)
(* helpers, and the recontract-estimate write path (api/recontract.py),    *)
(* over the relational schema of models.py.                                *)
(***************************************************************************)
EXTENDS Integers, Sequences, FiniteSets, TLC

VARIABLES
    plans,              \* table plans:      id -> [name]
    agencies,           \* table agencies:   id -> [number, name]
    customers,          \* table customers:  id -> [name, agency_id]
    ppa_bundles,        \* table ppa_bundles: id -> row
    ppa_projects,       \* table ppa_projects: id -> [bundle_id, capacity_mw]
    ppa_supply_points,  \* table ppa_supply_points: id -> [bundle_id, project_id, contract_kw]
    request,            \* the last request answered (none while a handler is in progress)
    response,           \* the response it produced
    client,             \* a client walking the pages of one list query
    mapper,             \* last application of a presentation helper, with its result
    contracts,          \* table contracts: id -> [supply_point_number, end_date, status]
    recontract_estimates,       \* table recontract_estimates: id -> header row
    recontract_supply_points,   \* table recontract_supply_points: id -> [estimate_id, supply_point_number]
    recontract_plants,          \* table recontract_plants: id -> [estimate_id, capacity_mw, ppa_unit_price_yen_per_kwh]
    id_seq,             \* the id sequences of the three recontract tables
    rc,                 \* the POST /recontracts requests: position, payload, open transaction, response
    sessions,           \* get_session: the requests that depend on it, their sessions, the connection pool
    items,              \* api/items.py: the in-memory store, its id counter, the calls in progress
    handler,            \* the list or detail handler in progress: its position and what it has read
    seeder              \* scripts/seed_ppa.py: the position of the script, its runs, the supply point id sequence

ppa_vars == <<plans, agencies, customers, ppa_bundles, ppa_projects, ppa_supply_points>>

\* The committed rows the recontract write path can change.
rc_tables == <<contracts, recontract_estimates, recontract_supply_points, recontract_plants>>

rc_vars == <<contracts, recontract_estimates, recontract_supply_points, recontract_plants, id_seq, rc>>

\* The state outside the database tables and the handlers that use them.
aux_vars == <<sessions, items, handler, seeder>>

-----------------------------------------------------------------------------
(* Values *)

\* Text outside ASCII is written by code point: "<U+65E5>" is the one
\* character U+65E5.

\* SQL NULL / Python None in an integer-, float- or date-valued position.
NULL == -1

\* Python None in a string-valued position.
NONE_STR == "<None>"

\* Python truthiness of an Optional[int] / Optional[date] (`not x`).
TruthyInt(x) == x # NULL /\ x # 0

\* Python truthiness of an Optional[str].
TruthyStr(s) == s # NONE_STR /\ s # ""

QuoteStatus == {"DRAFT", "SUBMITTED", "PRICED", "EXCEL_READY"}
OfferStatus == {"NONE", "OFFERED", "WON", "LOST"}

\* A status value as read from a row: an enum member (tagged with its class)
\* or None.
QuoteMember(n) == [cls |-> "QuoteStatus", name |-> n]
OfferMember(n) == [cls |-> "OfferStatus", name |-> n]
NoneValue == [cls |-> "NoneType", name |-> "None"]

-----------------------------------------------------------------------------
(* Calendar arithmetic of datetime.date: dates are proleptic Gregorian       *)
(* ordinals, as date + timedelta computes them; strftime goes through        *)
(* (year, month, day).                                                       *)

IsLeap(y) == (y % 4 = 0) /\ ((y % 100 # 0) \/ (y % 400 = 0))

DaysInMonth(y, m) ==
    IF m = 2 THEN (IF IsLeap(y) THEN 29 ELSE 28)
    ELSE IF m \in {4, 6, 9, 11} THEN 30 ELSE 31

RECURSIVE DaysBeforeMonth(_, _)
DaysBeforeMonth(y, m) ==
    IF m = 1 THEN 0 ELSE DaysBeforeMonth(y, m - 1) + DaysInMonth(y, m - 1)

DaysBeforeYear(y) ==
    LET p == y - 1 IN p * 365 + (p \div 4) - (p \div 100) + (p \div 400)

\* date(y, m, d).toordinal()
Ymd2Ord(y, m, d) == DaysBeforeYear(y) + DaysBeforeMonth(y, m) + d

\* date.fromordinal(n) as [y, m, d]: the year is found around n / 365.2425
Ord2Ymd(n) ==
    LET g == (n * 400) \div 146097
        y == CHOOSE yy \in {g, g + 1, g + 2} :
                 DaysBeforeYear(yy) < n /\ n <= DaysBeforeYear(yy + 1)
        r == n - DaysBeforeYear(y)
        m == CHOOSE mm \in 1..12 :
                 DaysBeforeMonth(y, mm) < r
                 /\ r <= DaysBeforeMonth(y, mm) + DaysInMonth(y, mm)
    IN [y |-> y, m |-> m, d |-> r - DaysBeforeMonth(y, m)]

\* Zero-padded decimal rendering of a non-negative number: %m and %d are
\* 2 wide.
Pad2(n) == IF n < 10 THEN "0" \o ToString(n) ELSE ToString(n)

\* %Y of the C library's strftime: the year in decimal, as many digits as
\* it has (999 gives "999").
StrftimeYear(n) == ToString(n)

\* d.strftime('%Y-%m-%d')
Strftime(n) ==
    LET t == Ord2Ymd(n) IN StrftimeYear(t.y) \o "-" \o Pad2(t.m) \o "-" \o Pad2(t.d)

\* The year of a YYYY-MM-DD date: 4 digits, zero-padded.
Pad4(n) ==
    IF n < 10 THEN "000" \o ToString(n)
    ELSE IF n < 100 THEN "00" \o ToString(n)
    ELSE IF n < 1000 THEN "0" \o ToString(n)
    ELSE ToString(n)

\* A date written as YYYY-MM-DD (ISO 8601).
IsoDate(n) ==
    LET t == Ord2Ymd(n) IN Pad4(t.y) \o "-" \o Pad2(t.m) \o "-" \o Pad2(t.d)

-----------------------------------------------------------------------------
(* Presentation helpers of api/ppa_quotations.py *)

AREA_REGION_MAP ==
    [ HOKKAIDO |-> <<1, "Hokkaido", "<U+5317><U+6D77><U+9053>">>,
      TOHOKU   |-> <<2, "Tohoku",   "<U+6771><U+5317>">>,
      KANTO    |-> <<3, "Tokyo",    "<U+6771><U+4EAC>">>,
      CHUBU    |-> <<4, "Chubu",    "<U+4E2D><U+90E8>">>,
      KANSAI   |-> <<5, "Kansai",   "<U+95A2><U+897F>">>,
      CHUGOKU  |-> <<6, "Chugoku",  "<U+4E2D><U+56FD>">>,
      SHIKOKU  |-> <<7, "Shikoku",  "<U+56DB><U+56FD>">>,
      KYUSHU   |-> <<8, "Kyushu",   "<U+4E5D><U+5DDE>">> ]

PRICING_STATUS_MAP ==
    [ draft       |-> <<1, "pending",     "<U+4FDD><U+7559><U+4E2D>">>,
      submitted   |-> <<1, "pending",     "<U+4FDD><U+7559><U+4E2D>">>,
      priced      |-> <<2, "preliminary", "<U+66AB><U+5B9A>">>,
      excel_ready |-> <<3, "final",       "<U+78BA><U+5B9A>">> ]

OFFER_STATUS_MAP ==
    [ none    |-> <<1, "pending", "<U+4FDD><U+7559><U+4E2D>">>,
      offered |-> <<2, "offered", "<U+63D0><U+793A><U+6E08><U+307F>">>,
      won     |-> <<3, "won",     "<U+53D7><U+6CE8>">>,
      lost    |-> <<4, "lost",    "<U+5931><U+6CE8>">> ]

\* The literal default of both status lookups.
StatusDefault == <<1, "pending", "<U+4FDD><U+7559><U+4E2D>">>

\* str.upper() on the area codes the model stores.
Upper(s) ==
    CASE s = "KANTO"    -> "KANTO"
      [] s = "kanto"    -> "KANTO"
      [] s = "Tokyo"    -> "TOKYO"
      [] s = "Tohoku"   -> "TOHOKU"
      [] s = "Kansai"   -> "KANSAI"
      [] s = "kyushu"   -> "KYUSHU"
      [] s = "KYUSHU"   -> "KYUSHU"
      [] s = "Hokkaido" -> "HOKKAIDO"
      [] s = "Okinawa"  -> "OKINAWA"
      [] s = "hokuriku" -> "HOKURIKU"
      [] OTHER          -> s

\* str.lower() on the words that occur in the names of enum members.
LowerWord(s) ==
    CASE s = "QuoteStatus" -> "quotestatus"
      [] s = "OfferStatus" -> "offerstatus"
      [] s = "NoneType"    -> "nonetype"
      [] s = "None"        -> "none"
      [] s = "DRAFT"       -> "draft"
      [] s = "SUBMITTED"   -> "submitted"
      [] s = "PRICED"      -> "priced"
      [] s = "EXCEL_READY" -> "excel_ready"
      [] s = "NONE"        -> "none"
      [] s = "OFFERED"     -> "offered"
      [] s = "WON"         -> "won"
      [] s = "LOST"        -> "lost"
      [] OTHER             -> s

\* str(v): Enum.__str__ of a member of a (str, Enum) class is
\* 'ClassName.MEMBER'; str(None) is 'None'.
PyStr(v) == IF v = NoneValue THEN <<"None">> ELSE <<v.cls, v.name>>

\* (str(v) or "").lower(), as the dotted text it is.
StatusKey(v) ==
    LET s == PyStr(v) IN
    IF Len(s) = 1 THEN LowerWord(s[1])
    ELSE LowerWord(s[1]) \o "." \o LowerWord(s[2])

\* dict.get(key, default)
DictGet(d, key, default) == IF key \in DOMAIN d THEN d[key] ELSE default

region_from_area(area) ==
    IF ~TruthyStr(area) THEN <<NULL, NONE_STR, NONE_STR>>
    ELSE DictGet(AREA_REGION_MAP, Upper(area), <<NULL, area, area>>)

pricing_status_of(quote_status) ==
    DictGet(PRICING_STATUS_MAP, StatusKey(quote_status), StatusDefault)

offer_status_of(offer_status) ==
    DictGet(OFFER_STATUS_MAP, StatusKey(offer_status), StatusDefault)

\* _format_quote_valid_until: <<label, expiration date>>
format_quote_valid_until(requested_at, days) ==
    IF ~TruthyInt(requested_at) \/ ~TruthyInt(days) THEN <<"", NULL>>
    ELSE LET exp == requested_at + days
         IN <<Strftime(exp) \o " (" \o ToString(days) \o "<U+65E5>)", exp>>

-----------------------------------------------------------------------------
(* SQL helpers *)

\* All orderings (sequences without repetition) of the finite set S.
Perms(S) ==
    {f \in [1..Cardinality(S) -> S] :
        \A i, j \in 1..Cardinality(S) : i # j => f[i] # f[j]}

Min(a, b) == IF a < b THEN a ELSE b

\* seq[lo..hi], empty when lo > hi
Slice(seq, lo, hi) == [i \in 1..(IF hi >= lo THEN hi - lo + 1 ELSE 0) |-> seq[lo + i - 1]]

\* LIMIT n OFFSET k applied to an ordered result
LimitOffset(seq, n, k) == Slice(seq, k + 1, Min(Len(seq), k + n))

Range(f) == {f[x] : x \in DOMAIN f}

-----------------------------------------------------------------------------
(* The joined, grouped statement shared by the list and detail endpoints:   *)
(* ppa_bundles JOIN plans JOIN customers LEFT JOIN agencies                  *)
(* LEFT JOIN ppa_projects ON bundle_id LEFT JOIN ppa_supply_points ON        *)
(* bundle_id, GROUP BY the bundle's columns.                                 *)

ProjectsOf(b) == {p \in DOMAIN ppa_projects : ppa_projects[p].bundle_id = b}
SupplyPointsOf(b) == {s \in DOMAIN ppa_supply_points : ppa_supply_points[s].bundle_id = b}

\* One side of an inner JOIN: the matching rows only.
InnerSide(ids) == ids

\* One side of a LEFT JOIN: the matching rows, or a single all-NULL row.
OuterSide(ids) == IF ids = {} THEN {NULL} ELSE ids

\* The rows of one bundle's group: <<project id, supply point id>> pairs.
JoinRows(b) == OuterSide(ProjectsOf(b)) \X OuterSide(SupplyPointsOf(b))

\* Bundles that survive the inner joins to plans and customers.
JoinedBundles ==
    {b \in DOMAIN ppa_bundles :
        /\ ppa_bundles[b].plan_id \in DOMAIN plans
        /\ ppa_bundles[b].customer_id \in DOMAIN customers}

\* contract_kw of the supply point side of a joined row (NULL on the all-NULL side)
RowKw(r) == IF r[2] = NULL THEN NULL ELSE ppa_supply_points[r[2]].contract_kw

\* SUM(contract_kw) over a set of joined rows: NULL inputs are skipped, and
\* the sum of no input is NULL.
RECURSIVE SqlSumKw(_)
SqlSumKw(R) ==
    IF R = {} THEN NULL
    ELSE LET r == CHOOSE x \in R : TRUE
             rest == SqlSumKw(R \ {r})
             v == RowKw(r)
         IN IF v = NULL THEN rest
            ELSE IF rest = NULL THEN v ELSE rest + v

Coalesce(v, d) == IF v = NULL THEN d ELSE v

\* func.count(PpaSupplyPoint.id) over the group
agg_sp_count(b) == Cardinality({r \in JoinRows(b) : r[2] # NULL})

\* func.coalesce(func.sum(PpaSupplyPoint.contract_kw), 0.0) over the group
agg_sum_kw(b) == Coalesce(SqlSumKw(JoinRows(b)), 0)

\* func.count(sa.distinct(PpaProject.id)) over the group
agg_proj_count(b) == Cardinality({r[1] : r \in JoinRows(b)} \ {NULL})

\* The agency columns through the LEFT JOIN to agencies.
AgencyIdOf(b) ==
    IF ppa_bundles[b].agency_id \in DOMAIN agencies THEN ppa_bundles[b].agency_id ELSE NULL

\* The header fields the list item and the detail object share, before
\* validation by the response schema.
HeaderFields(b) ==
    LET row == ppa_bundles[b]
        fmt == format_quote_valid_until(row.requested_at, row.quote_valid_days)
    IN [ id                |-> b,
         customer_name     |-> customers[row.customer_id].name,
         plan_id           |-> row.plan_id,
         sales_agent_id    |-> AgencyIdOf(b),
         region            |-> region_from_area(row.area),
         quote_valid_until |-> fmt[1],
         expiration_date   |-> fmt[2],
         num_of_spids      |-> agg_sp_count(b),
         pricing_status    |-> pricing_status_of(row.quote_status),
         offer_status      |-> offer_status_of(row.offer_status),
         contract_power_kw |-> agg_sum_kw(b) ]

\* Pydantic validation of the fields the schemas declare without Optional:
\* region_id: int, region_name_en: str, region_name_jp: str.
HeaderValid(h) ==
    /\ h.region[1] # NULL
    /\ h.region[2] # NONE_STR
    /\ h.region[3] # NONE_STR

InternalError == [kind |-> "error", status |-> 500, detail |-> "Internal Server Error"]

-----------------------------------------------------------------------------
(* list_ppa_quotations *)

\* str.lower() on the sort_by / sort_order texts the clients send.
LowerParam(s) ==
    CASE s = "UPDATED_AT"    -> "updated_at"
      [] s = "Customer_Name" -> "customer_name"
      [] s = "ASC"           -> "asc"
      [] s = "Asc"           -> "asc"
      [] s = "DESC"          -> "desc"
      [] OTHER               -> s

\* (x or "")
OrEmpty(s) == IF TruthyStr(s) THEN s ELSE ""

\* Collation rank of the customer names in the reference data.
NameRank(name) ==
    CASE name = "ACME Foods"    -> 1
      [] name = "Demo Customer" -> 2
      [] name = "Hikari Retail" -> 3
      [] OTHER                  -> 4

\* PostgreSQL orders NULL above every value.
NullsHigh(v) == IF v = NULL THEN 1000000000 ELSE v

\* sort_map.get((sort_by or "").lower(), literal_column("updated_at"))
sort_col(sort_by) ==
    LET k == LowerParam(OrEmpty(sort_by)) IN
    IF k \in {"updated_at", "contract_start_date", "customer_name"} THEN k ELSE "updated_at"

\* The value of the ORDER BY column in bundle b's row.
SortValue(b, col) ==
    CASE col = "updated_at"          -> ppa_bundles[b].updated_at
      [] col = "contract_start_date" -> NullsHigh(ppa_bundles[b].contract_start_date)
      [] col = "customer_name"       -> NameRank(customers[ppa_bundles[b].customer_id].name)

\* (sort_order or "").lower() == "asc"
IsAsc(sort_order) == LowerParam(OrEmpty(sort_order)) = "asc"

\* The orders in which the database may return the rows of S under
\* ORDER BY col ASC|DESC: rows that are equal in col come in any order.
Orderings(S, col, asc) ==
    {o \in Perms(S) :
        \A i, j \in 1..Cardinality(S) :
            i < j => IF asc THEN SortValue(o[i], col) <= SortValue(o[j], col)
                            ELSE SortValue(o[i], col) >= SortValue(o[j], col)}

\* The groups of the list statement: a bundle has a group when the joins
\* leave it a row and the WHERE clauses accept it.
Matching(customer_id, agency_id, region) ==
    {b \in JoinedBundles :
        /\ JoinRows(b) # {}
        /\ (customer_id # NULL => ppa_bundles[b].customer_id = customer_id)
        /\ (agency_id # NULL => ppa_bundles[b].agency_id = agency_id)
        /\ (TruthyStr(region) => ppa_bundles[b].area = region)}

ListItem(b) ==
    [h |-> HeaderFields(b), project_count |-> agg_proj_count(b)]

\* total_q: SELECT count(*) FROM ppa_bundles
total_q == Cardinality(DOMAIN ppa_bundles)

\* filtered_q: SELECT count(*) over the groups of the filtered statement
filtered_q(customer_id, agency_id, region) ==
    Cardinality(Matching(customer_id, agency_id, region))

\* The handler's result when its first two statements have returned
\* total_count and filtered_count and the database returns the matching
\* rows of the third in the order `order`.
list_ppa_quotations(page, rows, total_count, filtered_count, order) ==
    LET rows_          == LimitOffset(order, rows, (page - 1) * rows)
        data           == [i \in 1..Len(rows_) |->
                              LET it == ListItem(rows_[i]) IN
                              [ id                |-> it.h.id,
                                customer_name     |-> it.h.customer_name,
                                plan_id           |-> it.h.plan_id,
                                sales_agent_id    |-> it.h.sales_agent_id,
                                region            |-> it.h.region,
                                quote_valid_until |-> it.h.quote_valid_until,
                                expiration_date   |-> it.h.expiration_date,
                                num_of_spids      |-> it.h.num_of_spids,
                                pricing_status    |-> it.h.pricing_status,
                                offer_status      |-> it.h.offer_status,
                                contract_power_kw |-> it.h.contract_power_kw,
                                project_count     |-> it.project_count ]]
    IN IF \E i \in 1..Len(rows_) : ~HeaderValid(HeaderFields(rows_[i]))
       THEN InternalError
       ELSE [ kind           |-> "list",
              status         |-> 200,
              total_count    |-> total_count,
              filtered_count |-> filtered_count,
              data           |-> data ]

\* The orders the database may choose for one list request.
ListOrders(sort_by, sort_order, customer_id, agency_id, region) ==
    Orderings(Matching(customer_id, agency_id, region), sort_col(sort_by), IsAsc(sort_order))

-----------------------------------------------------------------------------
(* get_ppa_quotation_detail *)

\* The set S of integers in ascending order.
RECURSIVE Ascending(_)
Ascending(S) ==
    IF S = {} THEN << >>
    ELSE LET m == CHOOSE x \in S : \A y \in S : x <= y
         IN <<m>> \o Ascending(S \ {m})

\* ppa_projects LEFT JOIN ppa_supply_points ON project_id = ppa_projects.id,
\* the group of project p, as <<project id, supply point id>> rows.
ProjectJoinRows(p) ==
    {p} \X OuterSide({s \in DOMAIN ppa_supply_points : ppa_supply_points[s].project_id = p})

\* A class that drops the project's id.
PpaQuotationDetailProjectNoId(project_id, capacity_mw, num_of_spids, contract_power_kw) ==
    [ project_id        |-> NULL,
      capacity_mw       |-> capacity_mw,
      num_of_spids      |-> num_of_spids,
      contract_power_kw |-> contract_power_kw ]

\* class PpaQuotationDetailProject of schemas_ppa_quotations: a project
\* of the detail, annotated with the count and the summed contract kW of
\* the supply points linked to it, each field kept as given.
PpaQuotationDetailProject(project_id, capacity_mw, num_of_spids, contract_power_kw) ==
    [ project_id        |-> project_id,
      capacity_mw       |-> capacity_mw,
      num_of_spids      |-> num_of_spids,
      contract_power_kw |-> contract_power_kw ]

DetailProject(p) ==
    PpaQuotationDetailProject(p,
                              ppa_projects[p].capacity_mw,
                              Cardinality({r \in ProjectJoinRows(p) : r[2] # NULL}),
                              Coalesce(SqlSumKw(ProjectJoinRows(p)), 0))

NotFound404 == [kind |-> "error", status |-> 404, detail |-> "Bundle not found"]

\* hdr_stmt ... .first(): the row of the bundle, when the joins leave it one.
HdrFound(bundle_id) == bundle_id \in JoinedBundles

\* proj_stmt: the projects of the bundle by ascending id, each with the
\* rollup of the supply points linked to it.
proj_stmt(bundle_id) ==
    LET proj_ids == Ascending(ProjectsOf(bundle_id))
    IN [i \in 1..Len(proj_ids) |-> DetailProject(proj_ids[i])]

\* The handler's result when hdr_stmt has returned the header h and
\* proj_stmt the rows `projects`.
get_ppa_quotation_detail(h, projects) ==
    IF ~HeaderValid(h) THEN InternalError
    ELSE [ kind              |-> "detail",
           status            |-> 200,
           id                |-> h.id,
           customer_name     |-> h.customer_name,
           plan_id           |-> h.plan_id,
           sales_agent_id    |-> h.sales_agent_id,
           region            |-> h.region,
           quote_valid_until |-> h.quote_valid_until,
           expiration_date   |-> h.expiration_date,
           num_of_spids      |-> h.num_of_spids,
           pricing_status    |-> h.pricing_status,
           offer_status      |-> h.offer_status,
           contract_power_kw |-> h.contract_power_kw,
           project_count     |-> Len(projects),
           projects          |-> projects ]

-----------------------------------------------------------------------------
(* State: the database after the migrations is empty; the API only reads    *)
(* the PPA tables, whose rows come from outside it.                         *)

NoRequest == [op |-> "none"]

\* No request has asked for a session; the engine has opened no connection.
NoSessions == [req |-> << >>, made |-> 0, conns |-> 0, idle |-> {}]

\* The store after the import of api/items.py: _seed() has stored the three
\* samples under the ids 1..3 (prices in hundredths).
ImportedItems ==
    [ DB    |-> (1 :> [name |-> "Solar kWh Pack (Residential)", price |-> 18])
                @@ (2 :> [name |-> "Battery Storage Add-on", price |-> 499])
                @@ (3 :> [name |-> "Green Tariff (Business)", price |-> 21]),
      seq   |-> 3,
      calls |-> << >> ]
NoResponse == [kind |-> "none", status |-> 0]
IdleClient == [phase |-> "idle"]
IdleMapper == [fn |-> "none"]

\* No list or detail handler is in progress.
NoHandler == [pc |-> "idle"]

\* The seed script is not running and has never run; the sequence of
\* ppa_supply_points.id has handed out no id. flushed holds the tables the
\* flush in progress has sent its INSERT for.
IdleSeeder == [pc |-> "idle", runs |-> 0, sp_seq |-> 0, flushed |-> {}]

\* The application at rest: no request, no handler in progress.
AppAtRest ==
    /\ request = NoRequest
    /\ response = NoResponse
    /\ client = IdleClient
    /\ mapper = IdleMapper
    /\ sessions = NoSessions
    /\ items = ImportedItems
    /\ handler = NoHandler

\* The application and the scripts at rest, beside the PPA tables and the
\* recontract tables.
AtRest ==
    /\ AppAtRest
    /\ seeder = IdleSeeder

\* The recontract tables as the migrations create them.
NoRecontracts ==
    /\ contracts = << >>
    /\ recontract_estimates = << >>
    /\ recontract_supply_points = << >>
    /\ recontract_plants = << >>
    /\ id_seq = [est |-> 0, sp |-> 0, plant |-> 0]
    /\ rc = << >>

InitPpa ==
    /\ plans = << >>
    /\ agencies = << >>
    /\ customers = << >>
    /\ ppa_bundles = << >>
    /\ ppa_projects = << >>
    /\ ppa_supply_points = << >>
    /\ AtRest
    /\ NoRecontracts

\* plans, agencies and customers as the seed script writes them.
ReferencePlans ==
    (101 :> [name |-> "Flat (Seasonal)"])
    @@ (102 :> [name |-> "EcoBiz Plan (LV) + PPA"])
    @@ (103 :> [name |-> "100% green market linked price plan"])

ReferenceAgencies ==
    (23 :> [number |-> "AG023", name |-> "Demo Agency"])
    @@ (24 :> [number |-> "AG024", name |-> "North Sales"])
    @@ (25 :> [number |-> "AG025", name |-> "Kansai Partners"])

ReferenceCustomers ==
    (501 :> [name |-> "Demo Customer", agency_id |-> 23])
    @@ (502 :> [name |-> "ACME Foods", agency_id |-> 24])
    @@ (503 :> [name |-> "Hikari Retail", agency_id |-> 25])

\* A row of ppa_bundles (capacity and dates as the columns hold them; the
\* enum columns hold members).
BundleRow(customer_id, agency_id, area, quote_status, offer_status, updated_at, contract_start_date, requested_at, quote_valid_days) ==
    [ customer_id         |-> customer_id,
      agency_id           |-> agency_id,
      plan_id             |-> 101,
      area                |-> area,
      quote_status        |-> quote_status,
      offer_status        |-> offer_status,
      updated_at          |-> updated_at,
      contract_start_date |-> contract_start_date,
      requested_at        |-> requested_at,
      quote_valid_days    |-> quote_valid_days ]

\* A row of ppa_projects (capacity_mw in tenths of a MW).
ProjectRow(bundle_id, capacity_mw) == [bundle_id |-> bundle_id, capacity_mw |-> capacity_mw]

\* A row of ppa_supply_points: bundle_id and the nullable project_id are
\* independent columns.
SupplyPointRow(bundle_id, project_id, contract_kw) ==
    [bundle_id |-> bundle_id, project_id |-> project_id, contract_kw |-> contract_kw]

\* The foreign keys of the three PPA tables hold in the tables b, p, s over
\* the reference rows.
ForeignKeysHold(b, p, s) ==
    /\ \A i \in DOMAIN b :
          /\ b[i].customer_id \in DOMAIN ReferenceCustomers
          /\ b[i].plan_id \in DOMAIN ReferencePlans
          /\ b[i].agency_id = NULL \/ b[i].agency_id \in DOMAIN ReferenceAgencies
    /\ \A i \in DOMAIN p : p[i].bundle_id \in DOMAIN b
    /\ \A i \in DOMAIN s :
          /\ s[i].bundle_id \in DOMAIN b
          /\ s[i].project_id = NULL \/ s[i].project_id \in DOMAIN p

\* The database holds the reference rows and the bundles b, the projects p
\* and the supply points s.
PpaTables(b, p, s) ==
    /\ ForeignKeysHold(b, p, s)
    /\ plans = ReferencePlans
    /\ agencies = ReferenceAgencies
    /\ customers = ReferenceCustomers
    /\ ppa_bundles = b
    /\ ppa_projects = p
    /\ ppa_supply_points = s

\* The application at rest on a database that holds the reference rows and
\* the bundles b, the projects p and the supply points s, which the seed
\* script has not written.
OnFile(b, p, s) ==
    /\ PpaTables(b, p, s)
    /\ AtRest
    /\ NoRecontracts

\* contract_kw of the n-th supply point on file (the values of the seed
\* script's first bundle)
SeedKw(n) ==
    CASE n = 1 -> 500
      [] n = 2 -> 440
      [] n = 3 -> 600
      [] n = 4 -> 450
      [] n = 5 -> 400
      [] OTHER -> 430

\* 2025-07-01, the request date of the seed script
SeedRequestDate == Ymd2Ord(2025, 7, 1)

\* The supply points 1..n, the i-th of bundle sb[i] and project sp[i].
SupplyPoints(n, sb, sp) == [i \in 1..n |-> SupplyPointRow(sb[i], sp[i], SeedKw(i))]

\* The projects 1..n, the i-th of bundle pb[i], of 0.5 MW each.
Projects(n, pb) == [i \in 1..n |-> ProjectRow(pb[i], 5)]

BUNDLE_IDS == {9001, 9002, 9003}
PLAN_IDS == {101, 102, 103}
AGENCY_IDS == {23, 24, 25}
CUSTOMER_IDS == {501, 502, 503}


\* The three bundles of the script, written at time t (created_at and
\* updated_at default to now() of the transaction); quote_status and
\* offer_status take their column defaults.
SeededBundles(t) ==
    (9001 :> [BundleRow(501, 23, "Tokyo", QuoteMember("DRAFT"), OfferMember("NONE"), t,
                        Ymd2Ord(2025, 9, 1), Ymd2Ord(2025, 7, 1), 60) EXCEPT !.plan_id = 101])
    @@ (9002 :> [BundleRow(502, 24, "Tohoku", QuoteMember("DRAFT"), OfferMember("NONE"), t,
                           Ymd2Ord(2025, 11, 1), Ymd2Ord(2025, 7, 11), 30) EXCEPT !.plan_id = 102])
    @@ (9003 :> [BundleRow(503, 25, "Kansai", QuoteMember("DRAFT"), OfferMember("NONE"), t,
                           Ymd2Ord(2025, 12, 1), Ymd2Ord(2025, 7, 21), 60) EXCEPT !.plan_id = 103])

\* PROJECTS
SeededProjects ==
    (12001 :> ProjectRow(9001, 0)) @@ (12002 :> ProjectRow(9001, 5))
    @@ (12003 :> ProjectRow(9001, 10))
    @@ (22001 :> ProjectRow(9002, 2)) @@ (22002 :> ProjectRow(9002, 8))
    @@ (32001 :> ProjectRow(9003, 15))

\* sps_9001 + sps_9002 + sps_9003, in the order of the add_all
SeededSupplyPoints ==
    << SupplyPointRow(9001, 12001, 500), SupplyPointRow(9001, 12001, 440),
       SupplyPointRow(9001, NULL, 600),  SupplyPointRow(9001, NULL, 450),
       SupplyPointRow(9001, NULL, 400),  SupplyPointRow(9001, NULL, 430),
       SupplyPointRow(9002, 22001, 300), SupplyPointRow(9002, 22001, 250),
       SupplyPointRow(9002, 22002, 350), SupplyPointRow(9002, 22002, 150),
       SupplyPointRow(9003, 32001, 700), SupplyPointRow(9003, 32001, 500) >>

\* The application at rest on the database as one run of the seed script
\* leaves an empty one: the script has run once and ended, and the twelve
\* supply points have taken the ids 1..12 of their sequence.
Seeded ==
    /\ PpaTables(SeededBundles(1), SeededProjects,
                 [i \in 1..Len(SeededSupplyPoints) |-> SeededSupplyPoints[i]])
    /\ AppAtRest
    /\ seeder = [IdleSeeder EXCEPT !.runs = 1, !.sp_seq = Len(SeededSupplyPoints)]
    /\ NoRecontracts

NextId(table) == Cardinality(DOMAIN table) + 1

\* The values the handler receives for its parameters.
ListArgs(page, rows, sort_by, sort_order, customer_id, agency_id, region) ==
    [ page |-> page, rows |-> rows, sort_by |-> sort_by, sort_order |-> sort_order,
      customer_id |-> customer_id, agency_id |-> agency_id, region |-> region ]

\* What stays as it is while a list or detail handler takes a step.
HandlerRest == <<ppa_vars, mapper, sessions, items, seeder, rc_vars>>

\* The list handler is entered for the request req with the arguments
\* args and runs to its first await, total_q.
ListBegin(req, args) ==
    /\ handler.pc = "idle"
    /\ handler' = [ pc |-> "filtered_q", req |-> req, args |-> args,
                    total_count |-> total_q, filtered_count |-> NULL ]
    /\ request' = NoRequest
    /\ response' = NoResponse

\* GET /ppa_quotations
ListRequest(page, rows, sort_by, sort_order, customer_id, agency_id, region) ==
    /\ client.phase = "idle"
    /\ ListBegin([ op |-> "list", page |-> page, rows |-> rows, sort_by |-> sort_by,
                   sort_order |-> sort_order, customer_id |-> customer_id,
                   agency_id |-> agency_id, region |-> region ],
                 ListArgs(page, rows, sort_by, sort_order, customer_id, agency_id, region))
    /\ UNCHANGED <<HandlerRest, client>>

\* The second await of the list handler: filtered_q.
ListStepFiltered ==
    /\ handler.pc = "filtered_q"
    /\ handler' = [handler EXCEPT
           !.pc = "stmt",
           !.filtered_count = filtered_q(handler.args.customer_id, handler.args.agency_id,
                                         handler.args.region)]
    /\ UNCHANGED <<HandlerRest, request, response, client>>

\* The third await of the list handler, the page, and the response built
\* from the three results.
ListPage ==
    /\ handler.pc = "stmt"
    /\ \E order \in ListOrders(handler.args.sort_by, handler.args.sort_order,
                              handler.args.customer_id, handler.args.agency_id,
                              handler.args.region) :
          response' = list_ppa_quotations(handler.args.page, handler.args.rows,
                                          handler.total_count, handler.filtered_count, order)
    /\ request' = handler.req
    /\ handler' = NoHandler

ListStepPage ==
    /\ client.phase = "idle"
    /\ ListPage
    /\ UNCHANGED <<HandlerRest, client>>

\* GET /ppa_quotations/{bundle_id}: the handler runs to its first await,
\* hdr_stmt, and ends there with a 404 when the statement returns no row.
DetailRequest(bundle_id) ==
    /\ client.phase = "idle"
    /\ handler.pc = "idle"
    /\ IF HdrFound(bundle_id)
       THEN /\ handler' = [ pc |-> "proj_stmt", req |-> [op |-> "detail", bundle_id |-> bundle_id],
                            hdr_row |-> HeaderFields(bundle_id) ]
            /\ request' = NoRequest
            /\ response' = NoResponse
       ELSE /\ handler' = NoHandler
            /\ request' = [op |-> "detail", bundle_id |-> bundle_id]
            /\ response' = NotFound404
    /\ UNCHANGED <<HandlerRest, client>>

\* The second await of the detail handler, proj_stmt, and the response
\* built from the two results.
DetailStepProjects ==
    /\ handler.pc = "proj_stmt"
    /\ response' = get_ppa_quotation_detail(handler.hdr_row, proj_stmt(handler.req.bundle_id))
    /\ request' = handler.req
    /\ handler' = NoHandler
    /\ UNCHANGED <<HandlerRest, client>>

vars == <<plans, agencies, customers, ppa_bundles, ppa_projects, ppa_supply_points,
          request, response, client, mapper, aux_vars, rc_vars>>

-----------------------------------------------------------------------------
(* Aggregation: bundles with projects and supply points *)

MaxAggBundles == 2
MaxAggProjects == 2
MaxAggSps == 3

AggAreas == {"KANTO"}

AggBundleRows ==
    { BundleRow(501, 23, area, QuoteMember("DRAFT"), OfferMember("NONE"), 1, NULL, NULL, NULL) :
          area \in AggAreas }

\* The databases of the requests: empty, or the reference rows with up to
\* MaxAggBundles bundles, MaxAggProjects projects of any of them and
\* MaxAggSps supply points of any of them, linked to any project or none.
InitAgg ==
    \/ InitPpa
    \/ Seeded
    \/ \E nb \in 0..MaxAggBundles, np \in 0..MaxAggProjects, ns \in 0..MaxAggSps :
          \E b \in [1..nb -> AggBundleRows], pb \in [1..np -> 1..nb],
             sb \in [1..ns -> 1..nb], sp \in [1..ns -> (1..np) \cup {NULL}] :
                OnFile(b, Projects(np, pb), SupplyPoints(ns, sb, sp))

AggListRequest == ListRequest(1, 20, "updated_at", "desc", NULL, NULL, NONE_STR)

AggDetailRequest == \E id \in 1..(MaxAggBundles + 1) \cup BUNDLE_IDS : DetailRequest(id)

NextAgg ==
    \/ AggListRequest
    \/ ListStepFiltered
    \/ ListStepPage
    \/ AggDetailRequest
    \/ DetailStepProjects

SpecAgg == InitAgg /\ [][NextAgg]_vars

-----------------------------------------------------------------------------
(* Presentation: bundles of every area and status, read through both endpoints *)

MaxPresBundles == 1
MaxPresProjects == 1

PresAreas == {"KANTO", "Tokyo", ""}

\* The i-th bundle on file: any area, any quote status, any offer status.
PresBundle(i, v) ==
    BundleRow(501, 23, v[1], QuoteMember(v[2]), OfferMember(v[3]), i, NULL, SeedRequestDate, 60)

InitPres ==
    \/ InitPpa
    \/ Seeded
    \/ \E nb \in 0..MaxPresBundles, np \in 0..MaxPresProjects :
          \E v \in [1..nb -> PresAreas \X QuoteStatus \X OfferStatus], pb \in [1..np -> 1..nb] :
                OnFile([i \in 1..nb |-> PresBundle(i, v[i])], Projects(np, pb), << >>)

PresListRequest == ListRequest(1, 20, "updated_at", "desc", NULL, NULL, NONE_STR)

PresDetailRequest == \E id \in 1..(MaxPresBundles + 1) \cup BUNDLE_IDS : DetailRequest(id)

NextPres ==
    \/ PresListRequest
    \/ ListStepFiltered
    \/ ListStepPage
    \/ PresDetailRequest
    \/ DetailStepProjects

SpecPres == InitPres /\ [][NextPres]_vars

-----------------------------------------------------------------------------
(* Paging: a client fetches page 1, 2, ... of one list query until a page   *)
(* comes back empty, with no write in between.                              *)

MaxPageBundles == 3

PageRows == {1, 2}
PageSortBy == {"updated_at", "customer_name"}
PageSortOrder == {"asc", "desc"}
PageCustomerFilter == {NULL, 501}

\* (customer_id, updated_at) of the bundles on file: rows written in one
\* transaction share their updated_at.
PageSeeds == {<<501, 1>>, <<501, 2>>, <<502, 1>>}

PageBundleRows ==
    { BundleRow(cu[1], 23, "KANTO", QuoteMember("DRAFT"), OfferMember("NONE"),
                cu[2], NULL, NULL, NULL) : cu \in PageSeeds }

InitPage ==
    \/ InitPpa
    \/ Seeded
    \/ \E nb \in 0..MaxPageBundles :
          \E b \in [1..nb -> PageBundleRows] : OnFile(b, << >>, << >>)

ClientStart ==
    /\ client.phase \in {"idle", "done"}
    /\ \E rows \in PageRows, sort_by \in PageSortBy, sort_order \in PageSortOrder,
          customer_id \in PageCustomerFilter :
          client' = [ phase |-> "paging", rows |-> rows, sort_by |-> sort_by,
                      sort_order |-> sort_order, customer_id |-> customer_id,
                      page |-> 1, ids |-> << >>, filtered_count |-> 0 ]
    /\ UNCHANGED <<ppa_vars, request, response, mapper, aux_vars, rc_vars>>

\* What the client keeps of the answer res to the page it asked for: it
\* appends the ids of the page to what it has collected, and stops at an
\* empty page.
ClientReceive(res) ==
    IF res.kind # "list"
    THEN [client EXCEPT !.phase = "failed"]
    ELSE IF Len(res.data) = 0
    THEN [client EXCEPT !.phase = "done", !.filtered_count = res.filtered_count]
    ELSE [client EXCEPT !.page = @ + 1,
                        !.ids = @ \o [i \in 1..Len(res.data) |-> res.data[i].id]]

\* The client sends the GET /ppa_quotations of its next page: the handler
\* is entered as in ListRequest.
ClientFetch ==
    /\ client.phase = "paging"
    /\ ListBegin([ op |-> "list", page |-> client.page, rows |-> client.rows,
                   sort_by |-> client.sort_by, sort_order |-> client.sort_order,
                   customer_id |-> client.customer_id, agency_id |-> NULL,
                   region |-> NONE_STR ],
                 ListArgs(client.page, client.rows, client.sort_by, client.sort_order,
                          client.customer_id, NULL, NONE_STR))
    /\ UNCHANGED <<HandlerRest, client>>

\* The handler answers the client's request, and the client takes the page.
ClientPage ==
    /\ client.phase = "paging"
    /\ ListPage
    /\ client' = ClientReceive(response')
    /\ UNCHANGED HandlerRest

NextPage ==
    \/ ClientStart
    \/ ClientFetch
    \/ ListStepFiltered
    \/ ClientPage

SpecPage == InitPage /\ [][NextPage]_vars

-----------------------------------------------------------------------------
(* The presentation helpers applied to inputs of every shape *)

MapperDates ==
    { NULL, Ymd2Ord(2025, 7, 1), Ymd2Ord(2025, 7, 11), Ymd2Ord(2025, 7, 21),
      Ymd2Ord(2024, 1, 1), Ymd2Ord(2024, 1, 31), Ymd2Ord(2024, 2, 28),
      Ymd2Ord(2024, 12, 31), Ymd2Ord(2025, 12, 2), Ymd2Ord(2025, 12, 31),
      Ymd2Ord(2023, 2, 28), Ymd2Ord(2000, 2, 29), Ymd2Ord(1999, 11, 30),
      Ymd2Ord(999, 12, 2) }

MapperDays == {NULL, 0, 1, 29, 30, 31, 60, 90, 365}

MapperAreas ==
    {"KANTO", "kanto", "Tokyo", "Tohoku", "Kansai", "kyushu", "KYUSHU",
     "Hokkaido", "Okinawa", "hokuriku", "", NONE_STR}

MapperQuote == {QuoteMember(n) : n \in QuoteStatus} \cup {NoneValue}
MapperOffer == {OfferMember(n) : n \in OfferStatus} \cup {NoneValue}

MapperRest == <<ppa_vars, request, response, client, rc_vars, aux_vars>>

ApplyFormat ==
    /\ \E d \in MapperDates, n \in MapperDays :
          mapper' = [ fn |-> "_format_quote_valid_until", requested_at |-> d, days |-> n,
                      out |-> format_quote_valid_until(d, n) ]
    /\ UNCHANGED MapperRest

ApplyRegion ==
    /\ \E a \in MapperAreas :
          mapper' = [fn |-> "region_from_area", area |-> a, out |-> region_from_area(a)]
    /\ UNCHANGED MapperRest

ApplyPricing ==
    /\ \E v \in MapperQuote :
          mapper' = [fn |-> "pricing_status", value |-> v, out |-> pricing_status_of(v)]
    /\ UNCHANGED MapperRest

ApplyOffer ==
    /\ \E v \in MapperOffer :
          mapper' = [fn |-> "offer_status", value |-> v, out |-> offer_status_of(v)]
    /\ UNCHANGED MapperRest

NextMapper ==
    \/ ApplyFormat
    \/ ApplyRegion
    \/ ApplyPricing
    \/ ApplyOffer

SpecMapper == InitPpa /\ [][NextMapper]_vars

-----------------------------------------------------------------------------
(* Properties of the aggregates *)

\* The sum of contract_kw over the supply points S (NULL counts as nothing).
RECURSIVE KwTotal(_)
KwTotal(S) ==
    IF S = {} THEN 0
    ELSE LET x == CHOOSE y \in S : TRUE
             v == ppa_supply_points[x].contract_kw
         IN (IF v = NULL THEN 0 ELSE v) + KwTotal(S \ {x})

\* The bundle-level aggregates of a list item or detail object are those of
\* the bundle's own supply points.
BundleTotalsRight(o) ==
    /\ o.num_of_spids = Cardinality(SupplyPointsOf(o.id))
    /\ o.contract_power_kw = KwTotal(SupplyPointsOf(o.id))

\* C1: in every list and detail response, each bundle's num_of_spids is the
\* number of supply points of the bundle and contract_power_kw the sum of
\* their contract_kw, however many projects the bundle has.
C1_BundleTotals ==
    /\ response.kind = "list" =>
          \A i \in 1..Len(response.data) : BundleTotalsRight(response.data[i])
    /\ response.kind = "detail" => BundleTotalsRight(response)

\* The supply points linked to project p.
LinkedTo(p) == {s \in DOMAIN ppa_supply_points : ppa_supply_points[s].project_id = p}

\* C5: in a detail response each project's rollup covers exactly the supply
\* points whose project_id is that project (unlinked ones are in no rollup),
\* while the bundle-level num_of_spids of the same response counts every
\* supply point of the bundle.
C5_ProjectRollupAndBundleCount ==
    response.kind = "detail" =>
        /\ \A i \in 1..Len(response.projects) :
              LET pr == response.projects[i] IN
              /\ pr.num_of_spids = Cardinality(LinkedTo(pr.project_id))
              /\ pr.contract_power_kw = KwTotal(LinkedTo(pr.project_id))
        /\ response.num_of_spids = Cardinality(SupplyPointsOf(response.id))

-----------------------------------------------------------------------------
(* Properties of paging *)

\* C2: when a walk over the pages of one query ends (an empty page), the
\* ids collected are exactly the matching bundles, each once, and as many
\* as filtered_count says, for every sort column and direction and also
\* when bundles are equal in the sort column.
C2_PagesPartitionMatches ==
    client.phase = "done" =>
        /\ Len(client.ids) = client.filtered_count
        /\ \A i, j \in 1..Len(client.ids) : i # j => client.ids[i] # client.ids[j]
        /\ Range(client.ids) = Matching(client.customer_id, NULL, NONE_STR)

-----------------------------------------------------------------------------
(* Properties of the presentation helpers *)

\* C6: with a request date and a day count both present, the expiration
\* date is the request date plus the day count and the label is
\* "<expiration as YYYY-MM-DD> (<days><U+65E5>)"; with either absent, label
\* and expiration date are both null.
C6_ValidityWindow ==
    mapper.fn = "_format_quote_valid_until" =>
        IF mapper.requested_at # NULL /\ mapper.days # NULL
        THEN /\ mapper.out[2] = mapper.requested_at + mapper.days
             /\ mapper.out[1] = IsoDate(mapper.requested_at + mapper.days)
                                  \o " (" \o ToString(mapper.days) \o "<U+65E5>)"
        ELSE mapper.out = <<NONE_STR, NULL>>

\* The triplets the documented tables assign to the stored enum values.
QuoteTriplet(name) ==
    CASE name = "DRAFT"       -> <<1, "pending",     "<U+4FDD><U+7559><U+4E2D>">>
      [] name = "SUBMITTED"   -> <<1, "pending",     "<U+4FDD><U+7559><U+4E2D>">>
      [] name = "PRICED"      -> <<2, "preliminary", "<U+66AB><U+5B9A>">>
      [] name = "EXCEL_READY" -> <<3, "final",       "<U+78BA><U+5B9A>">>

OfferTriplet(name) ==
    CASE name = "NONE"    -> <<1, "pending", "<U+4FDD><U+7559><U+4E2D>">>
      [] name = "OFFERED" -> <<2, "offered", "<U+63D0><U+793A><U+6E08><U+307F>">>
      [] name = "WON"     -> <<3, "won",     "<U+53D7><U+6CE8>">>
      [] name = "LOST"    -> <<4, "lost",    "<U+5931><U+6CE8>">>

\* The bundle objects of the current response (list items, or the detail).
ResponseBundles ==
    IF response.kind = "list" THEN Range(response.data)
    ELSE IF response.kind = "detail" THEN {response}
    ELSE {}

\* The bundles the current request reads: the rows of the page for a list
\* request, the addressed bundle (when it exists) for a detail request.
RequestedBundles ==
    IF request.op = "list"
    THEN Matching(request.customer_id, request.agency_id, request.region)
    ELSE IF request.op = "detail" THEN {request.bundle_id} \cap JoinedBundles
    ELSE {}

\* C7: every bundle of a list or detail response carries the pricing triplet
\* the table assigns to its stored quote status and the offer triplet the
\* table assigns to its stored offer status.
C7_StatusTriplets ==
    \A o \in ResponseBundles :
        /\ o.pricing_status = QuoteTriplet(ppa_bundles[o.id].quote_status.name)
        /\ o.offer_status = OfferTriplet(ppa_bundles[o.id].offer_status.name)

\* C8: a request that reads a bundle whose quote or offer status does not
\* resolve to a key of its table completes (status 200) and shows
\* (1, "pending", "<U+4FDD><U+7559><U+4E2D>") for that status.
C8_UnmappedStatusDefaults ==
    \A b \in RequestedBundles :
        LET qmiss == StatusKey(ppa_bundles[b].quote_status) \notin DOMAIN PRICING_STATUS_MAP
            omiss == StatusKey(ppa_bundles[b].offer_status) \notin DOMAIN OFFER_STATUS_MAP
        IN (qmiss \/ omiss) =>
              /\ response.status = 200
              /\ \A o \in ResponseBundles :
                    o.id = b => /\ (qmiss => o.pricing_status = StatusDefault)
                                /\ (omiss => o.offer_status = StatusDefault)

\* The area of bundle b is absent or no key of the region table.
AreaUnknown(b) ==
    \/ ~TruthyStr(ppa_bundles[b].area)
    \/ Upper(ppa_bundles[b].area) \notin DOMAIN AREA_REGION_MAP

\* C9: a request that reads a bundle whose area is absent or no key of the
\* region table does not fail: the response is produced (status 200) and
\* holds the bundle.
C9_UnknownAreaNeverFails ==
    \A b \in RequestedBundles :
        AreaUnknown(b) =>
            /\ response.status = 200
            /\ \E o \in ResponseBundles : o.id = b

\* C10: the detail of a bundle id that does not exist is a 404 "Bundle not
\* found"; the detail of an existing bundle without projects is a 200 with
\* projects = [] and project_count = 0.
C10_NotFoundVersusNoChildren ==
    request.op = "detail" =>
        /\ request.bundle_id \notin DOMAIN ppa_bundles =>
              response.status = 404 /\ response.detail = "Bundle not found"
        /\ (request.bundle_id \in DOMAIN ppa_bundles /\ ProjectsOf(request.bundle_id) = {}) =>
              /\ response.status = 200
              /\ response.kind = "detail"
              /\ response.projects = << >>
              /\ response.project_count = 0

-----------------------------------------------------------------------------
(* create_recontract_estimate (POST /recontracts).  Every database round    *)
(* trip the handler awaits is a step; between two steps other requests and  *)
(* the seed script may run.  Each request has a session of its own, whose   *)
(* transaction holds its inserts and its UPDATE until the commit.           *)

ContractStatus == {"UNDER_CONTRACT", "RECONTRACT_ESTIMATE", "RECONTRACTED"}
QuoteEffectiveDays == {30, 60}

\* The requests that have entered the handler.
Requests == DOMAIN rc

\* [n+1 .. n+k] as a sequence: the ids a sequence hands out for k inserts.
IdsAfter(n, k) == [i \in 1..k |-> n + i]

\* The UPDATE without its status condition.
UpdateMatchesAnyStatus(spns) ==
    {c \in DOMAIN contracts : contracts[c].supply_point_number \in Range(spns)}

\* The contracts the handler's UPDATE matches:
\* supply_point_number IN (spns) AND status = UNDER_CONTRACT.
UpdateMatches(spns) ==
    {c \in DOMAIN contracts :
        /\ contracts[c].supply_point_number \in Range(spns)
        /\ contracts[c].status = "UNDER_CONTRACT"}

\* The contract rows a request's open transaction has updated and locked:
\* the rows its UPDATE has reached so far, held until the transaction ends.
Locked(r) == IF rc[r].pc \in {"update_rows", "commit"} THEN rc[r].updates ELSE {}

\* The contract row whose lock the UPDATE of request r waits for, NULL when
\* it waits for none.
LockWait(r) == IF rc[r].pc = "update_rows" THEN rc[r].waiting ELSE NULL

\* The request whose open transaction holds the lock of contract row c,
\* NULL when the row is not locked.
LockHolder(c) ==
    IF \E o \in Requests : c \in Locked(o)
    THEN CHOOSE o \in Requests : c \in Locked(o)
    ELSE NULL

\* The requests met from request o on by going from a request to the holder
\* of the row it waits for, over at most n requests.
RECURSIVE WaitChain(_, _)
WaitChain(o, n) ==
    IF o = NULL \/ n = 0 THEN {}
    ELSE {o} \cup (IF LockWait(o) = NULL THEN {}
                   ELSE WaitChain(LockHolder(LockWait(o)), n - 1))

\* The request's open transaction has inserted its header: the foreign key
\* checks of the INSERT hold a key-share lock on the plan and the customer
\* row until the transaction ends.
KeyShared(r) ==
    rc[r].pc \in {"flush_children", "execute_update", "update_rows", "commit"}

\* What seed() awaits, in order: the six DELETEs and their commit, the
\* flush of the plans, agencies and customers (three INSERTs, in the order
\* the unit of work gives them), the flush of the bundles, the flush of the
\* projects, the commit with the INSERT of the supply points before it, and
\* the two SELECTs.
SeedStatements ==
    << "delete_supply_points", "delete_projects", "delete_bundles", "delete_customers",
       "delete_agencies", "delete_plans", "commit_cleanup",
       "flush_reference", "insert_bundles",
       "insert_projects", "insert_supply_points", "commit_insert",
       "select_total", "select_ids" >>

\* The position in SeedStatements of the statement seed() awaits next.
SeedPos ==
    IF seeder.pc = "idle" THEN 1
    ELSE CHOOSE i \in DOMAIN SeedStatements : SeedStatements[i] = seeder.pc

\* The open transaction of seed() has deleted, and so locked, the customer
\* row / the plan row: DELETE customers is the fourth statement, DELETE
\* plans the sixth, the COMMIT the seventh.
SeedLocksCustomer(id) == id \in CUSTOMER_IDS \cap DOMAIN customers /\ SeedPos \in 5..7
SeedLocksPlan(id) == id \in PLAN_IDS \cap DOMAIN plans /\ SeedPos = 7

\* A validated request enters the handler.
RcBegin(payload) ==
    /\ rc' = rc @@ (NextId(rc) :>
               [ pc |-> "get_plan", payload |-> payload, est_id |-> NULL,
                 sp_ids |-> << >>, plant_ids |-> << >>, todo |-> {}, waiting |-> NULL,
                 updates |-> {}, loaded |-> << >>, status |-> 0, detail |-> "",
                 body |-> << >> ])
    /\ UNCHANGED <<ppa_vars, request, response, client, mapper, aux_vars, rc_tables, id_seq>>

\* await session.get(Plan, payload.plan_id): no row raises
\* HTTPException(400) before anything is added to the session.
RcGetPlan(r) ==
    /\ rc[r].pc = "get_plan"
    /\ rc' = [rc EXCEPT ![r] =
               IF rc[r].payload.plan_id \notin DOMAIN plans
               THEN [@ EXCEPT !.pc = "done", !.status = 400,
                              !.detail = "Invalid plan_id: " \o ToString(rc[r].payload.plan_id)]
               ELSE [@ EXCEPT !.pc = "get_customer"]]
    /\ UNCHANGED <<ppa_vars, request, response, client, mapper, aux_vars, rc_tables, id_seq>>

\* The handler without the customer lookup.
RcGetCustomerUnchecked(r) ==
    /\ rc[r].pc = "get_customer"
    /\ rc' = [rc EXCEPT ![r] =
               IF rc[r].payload.quote_effective_days \notin QuoteEffectiveDays
               THEN [@ EXCEPT !.pc = "done", !.status = 400,
                              !.detail = "quote_effective_days must be 30 or 60"]
               ELSE [@ EXCEPT !.pc = "flush_header"]]
    /\ UNCHANGED <<ppa_vars, request, response, client, mapper, aux_vars, rc_tables, id_seq>>

\* await session.get(Customer, payload.customer_id), in a round trip of its
\* own after the plan's; then the enum is coerced. Each failure raises
\* HTTPException(400) before anything is added to the session.
RcGetCustomer(r) ==
    /\ rc[r].pc = "get_customer"
    /\ rc' = [rc EXCEPT ![r] =
               IF rc[r].payload.customer_id \notin DOMAIN customers
               THEN [@ EXCEPT !.pc = "done", !.status = 400,
                              !.detail = "Invalid customer_id: "
                                             \o ToString(rc[r].payload.customer_id)]
               ELSE IF rc[r].payload.quote_effective_days \notin QuoteEffectiveDays
               THEN [@ EXCEPT !.pc = "done", !.status = 400,
                              !.detail = "quote_effective_days must be 30 or 60"]
               ELSE [@ EXCEPT !.pc = "flush_header"]]
    /\ UNCHANGED <<ppa_vars, request, response, client, mapper, aux_vars, rc_tables, id_seq>>

\* QuoteEffectiveDays(v): the member of the enum with the value v.
QuoteEffectiveDaysMember(v) == CASE v = 30 -> "DAYS_30" [] v = 60 -> "DAYS_60"

\* The value of a member of QuoteEffectiveDays, which is what the response
\* schema serialises (quote_effective_days: int).
QuoteEffectiveDaysValue(m) == CASE m = "DAYS_30" -> 30 [] m = "DAYS_60" -> 60

\* The columns of the header the handler constructs: the enum column holds
\* the member qeff, the other columns the fields of the payload.
EstimateRow(r) ==
    [ plan_id |-> rc[r].payload.plan_id,
      customer_id |-> rc[r].payload.customer_id,
      desired_quote_date |-> rc[r].payload.desired_quote_date,
      quote_effective_days |-> QuoteEffectiveDaysMember(rc[r].payload.quote_effective_days),
      remarks |-> rc[r].payload.remarks ]

\* The outcome of the foreign key checks of the header's INSERT, whose id
\* is id: the row stays in the open transaction, or IntegrityError, which
\* nothing around the flush catches, ends the request with a 500 and the
\* session is closed (rolled back).
HeaderChecked(r, id) ==
    IF /\ rc[r].payload.plan_id \in DOMAIN plans
       /\ rc[r].payload.customer_id \in DOMAIN customers
    THEN [rc[r] EXCEPT !.pc = "flush_children", !.est_id = id]
    ELSE [rc[r] EXCEPT !.pc = "done", !.est_id = NULL,
                       !.status = 500, !.detail = "IntegrityError"]

\* The header flush of a session that commits each flush at once.
RcFlushHeaderAutocommit(r) ==
    /\ rc[r].pc = "flush_header"
    /\ rc[r].payload.plan_id \in DOMAIN plans
    /\ rc[r].payload.customer_id \in DOMAIN customers
    /\ id_seq' = [id_seq EXCEPT !.est = @ + 1]
    /\ rc' = [rc EXCEPT ![r].pc = "flush_children", ![r].est_id = id_seq.est + 1]
    /\ recontract_estimates' = recontract_estimates @@ (id_seq.est + 1 :> EstimateRow(r))
    /\ UNCHANGED <<ppa_vars, request, response, client, mapper, aux_vars, contracts,
                   recontract_supply_points, recontract_plants>>

\* session.add(est); await session.flush(): the INSERT draws the header's
\* id from the sequence, then checks the two foreign keys. A referenced row
\* that the open transaction of seed() has deleted makes the check wait
\* for that transaction, with the id already drawn.
RcFlushHeader(r) ==
    /\ rc[r].pc = "flush_header"
    /\ id_seq' = [id_seq EXCEPT !.est = @ + 1]
    /\ rc' = [rc EXCEPT ![r] =
               IF \/ SeedLocksPlan(rc[r].payload.plan_id)
                  \/ SeedLocksCustomer(rc[r].payload.customer_id)
               THEN [@ EXCEPT !.pc = "flush_header_fk", !.est_id = id_seq.est + 1]
               ELSE HeaderChecked(r, id_seq.est + 1)]
    /\ UNCHANGED <<ppa_vars, request, response, client, mapper, aux_vars, rc_tables>>

\* The foreign key check of the header's INSERT goes on when the
\* transaction it waited for has ended.
RcFlushHeaderFk(r) ==
    /\ rc[r].pc = "flush_header_fk"
    /\ ~SeedLocksPlan(rc[r].payload.plan_id)
    /\ ~SeedLocksCustomer(rc[r].payload.customer_id)
    /\ rc' = [rc EXCEPT ![r] = HeaderChecked(r, rc[r].est_id)]
    /\ UNCHANGED <<ppa_vars, request, response, client, mapper, aux_vars, rc_tables, id_seq>>

\* A database round trip of the request fails (the connection is lost, the
\* statement is cancelled) and has no effect: the exception is not an
\* IntegrityError, the request ends with a 500 and get_session closes the
\* session, which rolls the open transaction back and releases its locks.
\* What the sequences have handed out is not given back, and what the
\* commit has published stays: the reload that fails leaves the estimate,
\* its children and the contracts' new status on file.
RcDbFailure(r) ==
    /\ rc[r].pc # "done"
    /\ rc' = [rc EXCEPT ![r].pc = "done", ![r].status = 500, ![r].detail = "DBAPIError"]
    /\ UNCHANGED <<ppa_vars, request, response, client, mapper, aux_vars, rc_tables, id_seq>>

\* The plants of the request without the implicit scenario.
PlantRowsSuppliedOnly(r) == rc[r].payload.plants

\* The plants of the request: the implicit 0.0 MW scenario, then the
\* supplied ones.
PlantRows(r) ==
    <<[capacity_mw |-> 0, ppa_unit_price_yen_per_kwh |-> NULL]>> \o rc[r].payload.plants

\* The round trip that follows the INSERTs of the children: the UPDATE
\* when the request has supply points (its autoflush sent the INSERTs), the
\* COMMIT otherwise (its flush did).
AfterChildren(r) ==
    IF Len(rc[r].payload.supply_points) > 0 THEN "execute_update" ELSE "commit"

\* The flush has sent the INSERT of every child table that has rows to
\* insert, the supply points' ids being sp_ids and the plants' plant_ids.
ChildrenFlushed(r, sp_ids, plant_ids) ==
    /\ Len(rc[r].payload.supply_points) = 0 \/ sp_ids # << >>
    /\ plant_ids # << >>

\* The supply points are added; the flush inserts them in a round trip of
\* their own, their ids drawn from the sequence. The supply points and the
\* plants are rows of two mappers that do not depend on each other and are
\* flushed together: the unit of work sends the one INSERT before or after
\* the other.
RcInsertSupplyPoints(r) ==
    /\ rc[r].pc = "flush_children"
    /\ rc[r].sp_ids = << >>
    /\ Len(rc[r].payload.supply_points) > 0
    /\ LET n   == Len(rc[r].payload.supply_points)
           ids == IdsAfter(id_seq.sp, n)
       IN /\ id_seq' = [id_seq EXCEPT !.sp = @ + n]
          /\ rc' = [rc EXCEPT ![r].pc = IF ChildrenFlushed(r, ids, rc[r].plant_ids)
                                        THEN AfterChildren(r) ELSE "flush_children",
                              ![r].sp_ids = ids]
    /\ UNCHANGED <<ppa_vars, request, response, client, mapper, aux_vars, rc_tables>>

\* The plants are added; the same flush inserts them in a round trip of
\* their own, before or after the supply points.
RcInsertPlants(r) ==
    /\ rc[r].pc = "flush_children"
    /\ rc[r].plant_ids = << >>
    /\ LET m   == Len(PlantRows(r))
           ids == IdsAfter(id_seq.plant, m)
       IN /\ id_seq' = [id_seq EXCEPT !.plant = @ + m]
          /\ rc' = [rc EXCEPT ![r].pc = IF ChildrenFlushed(r, rc[r].sp_ids, ids)
                                        THEN AfterChildren(r) ELSE "flush_children",
                              ![r].plant_ids = ids]
    /\ UNCHANGED <<ppa_vars, request, response, client, mapper, aux_vars, rc_tables>>

\* session.execute(update(Contract)...), after its autoflush: the statement
\* starts and takes its snapshot of the committed rows; the rows that match
\* there are the rows it has to visit. No row leaves this set later and
\* matches again, since nothing sets a contract UNDER_CONTRACT.
RcExecuteUpdate(r) ==
    /\ rc[r].pc = "execute_update"
    /\ LET matches == UpdateMatches(rc[r].payload.supply_points)
       IN rc' = [rc EXCEPT ![r].pc = IF matches = {} THEN "commit" ELSE "update_rows",
                           ![r].todo = matches]
    /\ UNCHANGED <<ppa_vars, request, response, client, mapper, aux_vars, rc_tables, id_seq>>

\* The request as the database error that aborts its statement leaves it:
\* nothing around session.execute catches the error, the request ends with
\* a 500 and get_session closes the session, which rolls the transaction
\* back and releases its locks.
DeadlockAborted(r) ==
    [rc[r] EXCEPT !.pc = "done", !.status = 500, !.detail = "DeadlockDetectedError"]

\* The UPDATE reaches its next row c. The statement visits its rows one by
\* one and locks each as it updates it, in the order of its scan, which
\* nothing in the handler fixes (no ORDER BY, no lock taken beforehand), so
\* any row left may be the next. A row another open transaction has locked
\* makes the statement wait for that transaction, with the locks it has
\* taken so far still held; once the row is free the statement checks its
\* condition against the committed row again and updates it if it still
\* matches. A wait that closes a cycle of waiting transactions is a
\* deadlock: the database aborts one transaction of the cycle.
RcUpdateRow(r) ==
    /\ rc[r].pc = "update_rows"
    /\ \E c \in rc[r].todo :
          /\ rc[r].waiting \in {NULL, c}
          /\ LET holder == LockHolder(c)
                 cycle  == WaitChain(holder, Cardinality(Requests))
             IN IF holder = NULL
                THEN rc' = [rc EXCEPT
                         ![r].todo = @ \ {c},
                         ![r].waiting = NULL,
                         ![r].updates =
                             IF c \in UpdateMatches(rc[r].payload.supply_points)
                             THEN @ \cup {c} ELSE @,
                         ![r].pc = IF rc[r].todo = {c} THEN "commit" ELSE @]
                ELSE /\ rc[r].waiting = NULL
                     /\ IF r \in cycle
                        THEN \E victim \in cycle :
                                 rc' = [rc EXCEPT ![r].waiting = c,
                                                  ![victim] = DeadlockAborted(victim)]
                        ELSE rc' = [rc EXCEPT ![r].waiting = c]
    /\ UNCHANGED <<ppa_vars, request, response, client, mapper, aux_vars, rc_tables, id_seq>>

\* await session.commit(): the transaction's rows become visible.
RcCommit(r) ==
    /\ rc[r].pc = "commit"
    /\ recontract_estimates' = recontract_estimates @@ (rc[r].est_id :> EstimateRow(r))
    /\ recontract_supply_points' = recontract_supply_points @@
           [i \in Range(rc[r].sp_ids) |->
               [ estimate_id |-> rc[r].est_id,
                 supply_point_number |-> rc[r].payload.supply_points[i - rc[r].sp_ids[1] + 1] ]]
    /\ recontract_plants' = recontract_plants @@
           [i \in Range(rc[r].plant_ids) |->
               LET row == PlantRows(r)[i - rc[r].plant_ids[1] + 1] IN
               [ estimate_id |-> rc[r].est_id,
                 capacity_mw |-> row.capacity_mw,
                 ppa_unit_price_yen_per_kwh |-> row.ppa_unit_price_yen_per_kwh ]]
    /\ contracts' = [c \in DOMAIN contracts |->
                        IF c \in rc[r].updates
                        THEN [contracts[c] EXCEPT !.status = "RECONTRACT_ESTIMATE"]
                        ELSE contracts[c]]
    /\ rc' = [rc EXCEPT ![r].pc = "reload"]
    /\ UNCHANGED <<ppa_vars, request, response, client, mapper, aux_vars, id_seq>>

\* select(RecontractEstimate).where(RecontractEstimate.id == e): the header
\* as a session that has not seen it loads it from its row.
SelectEstimate(e) ==
    [ id |-> e,
      plan_id |-> recontract_estimates[e].plan_id,
      customer_id |-> recontract_estimates[e].customer_id,
      desired_quote_date |-> recontract_estimates[e].desired_quote_date,
      quote_effective_days |-> recontract_estimates[e].quote_effective_days,
      remarks |-> recontract_estimates[e].remarks ]

\* selectinload(RecontractEstimate.supply_points): the SELECT of the
\* supply points of estimate e.
SelectinSupplyPoints(e) ==
    LET sps == Ascending({i \in DOMAIN recontract_supply_points :
                             recontract_supply_points[i].estimate_id = e})
    IN [i \in 1..Len(sps) |->
           [ id |-> sps[i],
             supply_point_number |-> recontract_supply_points[sps[i]].supply_point_number ]]

\* selectinload(RecontractEstimate.plants): the SELECT of the plants of
\* estimate e.
SelectinPlants(e) ==
    LET pls == Ascending({i \in DOMAIN recontract_plants :
                             recontract_plants[i].estimate_id = e})
    IN [i \in 1..Len(pls) |->
           [ id |-> pls[i],
             capacity_mw |-> recontract_plants[pls[i]].capacity_mw,
             ppa_unit_price_yen_per_kwh |-> recontract_plants[pls[i]].ppa_unit_price_yen_per_kwh ]]

\* A loaded estimate with its children, as RecontractEstimateOut serialises
\* it: id, plan_id, customer_id, desired_quote_date, quote_effective_days as
\* the value of the member, remarks, supply_points and plants.
EstimateOut(est, supply_points, plants) ==
    [ id |-> est.id,
      plan_id |-> est.plan_id,
      customer_id |-> est.customer_id,
      desired_quote_date |-> est.desired_quote_date,
      quote_effective_days |-> QuoteEffectiveDaysValue(est.quote_effective_days),
      remarks |-> est.remarks,
      supply_points |-> supply_points,
      plants |-> plants ]

\* The header object of the request's session: est as the handler
\* constructed it, with the id the flush gave it. The session keeps its
\* objects over the commit (expire_on_commit=False).
SessionEstimate(r) ==
    [ id |-> rc[r].est_id,
      plan_id |-> EstimateRow(r).plan_id,
      customer_id |-> EstimateRow(r).customer_id,
      desired_quote_date |-> EstimateRow(r).desired_quote_date,
      quote_effective_days |-> EstimateRow(r).quote_effective_days,
      remarks |-> EstimateRow(r).remarks ]

\* The supply point and plant objects of the request's session, by id.
SessionSupplyPoint(r, i) ==
    [ id |-> i,
      supply_point_number |-> rc[r].payload.supply_points[i - rc[r].sp_ids[1] + 1] ]

SessionPlant(r, i) ==
    [ id |-> i,
      capacity_mw |-> PlantRows(r)[i - rc[r].plant_ids[1] + 1].capacity_mw,
      ppa_unit_price_yen_per_kwh |->
          PlantRows(r)[i - rc[r].plant_ids[1] + 1].ppa_unit_price_yen_per_kwh ]

\* The estimate is selected again: the header first. The row the SELECT
\* returns is the row of est, which the session holds: the result is that
\* object as it is, not refreshed from the row.
RcReload(r) ==
    /\ rc[r].pc = "reload"
    /\ rc' = [rc EXCEPT ![r].pc = "reload_supply_points",
                        ![r].loaded = [est |-> SessionEstimate(r)]]
    /\ UNCHANGED <<ppa_vars, request, response, client, mapper, aux_vars, rc_tables, id_seq>>

\* The first selectinload of the reload: the rows of the estimate, each
\* resolved to the session's object of that id when it holds one.
RcReloadSupplyPoints(r) ==
    /\ rc[r].pc = "reload_supply_points"
    /\ LET rows == SelectinSupplyPoints(rc[r].est_id)
       IN rc' = [rc EXCEPT
               ![r].pc = "reload_plants",
               ![r].loaded =
                   [ est |-> rc[r].loaded.est,
                     supply_points |->
                         [k \in DOMAIN rows |->
                             IF rows[k].id \in Range(rc[r].sp_ids)
                             THEN SessionSupplyPoint(r, rows[k].id) ELSE rows[k]] ]]
    /\ UNCHANGED <<ppa_vars, request, response, client, mapper, aux_vars, rc_tables, id_seq>>

\* The second selectinload of the reload; the loaded estimate is returned
\* (201).
RcReloadPlants(r) ==
    /\ rc[r].pc = "reload_plants"
    /\ LET rows == SelectinPlants(rc[r].est_id)
       IN rc' = [rc EXCEPT
               ![r].pc = "done", ![r].status = 201,
               ![r].body =
                   EstimateOut(rc[r].loaded.est, rc[r].loaded.supply_points,
                               [k \in DOMAIN rows |->
                                   IF rows[k].id \in Range(rc[r].plant_ids)
                                   THEN SessionPlant(r, rows[k].id) ELSE rows[k]])]
    /\ UNCHANGED <<ppa_vars, request, response, client, mapper, aux_vars, rc_tables, id_seq>>

\* The lookup that returns the estimate without its plants.
get_estimate_without_plants(est, supply_points, plants) ==
    [ kind |-> "estimate", status |-> 200, body |-> EstimateOut(est, supply_points, << >>) ]

\* get_estimate returns the loaded estimate (200).
get_estimate(est, supply_points, plants) ==
    [ kind |-> "estimate", status |-> 200, body |-> EstimateOut(est, supply_points, plants) ]

\* GET /recontracts/{estimate_id}: the header is selected; no row raises
\* HTTPException(404, "Estimate not found").
GetEstimate(estimate_id) ==
    /\ client.phase = "idle"
    /\ handler.pc = "idle"
    /\ IF estimate_id \in DOMAIN recontract_estimates
       THEN /\ handler' = [ pc |-> "estimate_supply_points",
                            req |-> [op |-> "get_estimate", estimate_id |-> estimate_id],
                            est |-> SelectEstimate(estimate_id) ]
            /\ request' = NoRequest
            /\ response' = NoResponse
       ELSE /\ handler' = NoHandler
            /\ request' = [op |-> "get_estimate", estimate_id |-> estimate_id]
            /\ response' = [ kind |-> "error", status |-> 404, detail |-> "Estimate not found" ]
    /\ UNCHANGED <<HandlerRest, client>>

\* The first selectinload of get_estimate.
GetEstimateSupplyPoints ==
    /\ handler.pc = "estimate_supply_points"
    /\ handler' = [ pc |-> "estimate_plants", req |-> handler.req, est |-> handler.est,
                    supply_points |-> SelectinSupplyPoints(handler.req.estimate_id) ]
    /\ UNCHANGED <<HandlerRest, client, request, response>>

\* The second selectinload of get_estimate; the estimate is returned.
GetEstimatePlants ==
    /\ handler.pc = "estimate_plants"
    /\ response' = get_estimate(handler.est, handler.supply_points,
                                SelectinPlants(handler.req.estimate_id))
    /\ request' = handler.req
    /\ handler' = NoHandler
    /\ UNCHANGED <<HandlerRest, client>>

-----------------------------------------------------------------------------
(* Recontract: the contracts on file, and requests of every shape *)

MaxContracts == 2
MaxRequests == 1

RcSpns == {"SPN-A", "SPN-B"}

\* The (supply point number, status) pairs of a contract, in an order.
ContractKinds ==
    << [spn |-> "SPN-A", st |-> "UNDER_CONTRACT"],
       [spn |-> "SPN-A", st |-> "RECONTRACT_ESTIMATE"],
       [spn |-> "SPN-A", st |-> "RECONTRACTED"],
       [spn |-> "SPN-B", st |-> "UNDER_CONTRACT"],
       [spn |-> "SPN-B", st |-> "RECONTRACT_ESTIMATE"],
       [spn |-> "SPN-B", st |-> "RECONTRACTED"] >>

\* A contracts table of n rows; rows of one supply point differ in end_date.
\* The ids follow the order of ContractKinds: no statement of the program
\* depends on the id of a contract, so one table stands for those that
\* differ from it in the ids only.
ContractTables(n) ==
    {[c \in 1..n |-> [ customer_id |-> 501, plan_id |-> 101,
                       supply_point_number |-> ContractKinds[f[c]].spn,
                       end_date |-> Ymd2Ord(2026, 3, 31) + c,
                       status |-> ContractKinds[f[c]].st ]] :
        f \in {g \in [1..n -> DOMAIN ContractKinds] :
                  \A i, j \in 1..n : i < j => g[i] <= g[j]}}

RcPlant == [capacity_mw |-> 5, ppa_unit_price_yen_per_kwh |-> NULL]

\* Field(min_length=1, max_length=20) and Field(max_length=3)
MaxSupplyPoints == 20
MaxPlants == 3

\* The largest request the schema admits: 20 supply points, with
\* repetitions, and 3 plants, one of them of 0.0 MW.
RcFullSupplyPoints == [i \in 1..MaxSupplyPoints |-> IF i % 2 = 1 THEN "SPN-A" ELSE "SPN-B"]
RcFullPlants ==
    [i \in 1..MaxPlants |->
        IF i = 2 THEN [capacity_mw |-> 0, ppa_unit_price_yen_per_kwh |-> NULL] ELSE RcPlant]

\* date.today() of the validator: 2025-07-01, the request date of the seed.
Today == SeedRequestDate

\* A payload as RecontractEstimateIn holds it; remarks is NONE_STR when the
\* request carries none.
RcPayload(plan_id, customer_id, remarks, supply_points, plants) ==
    [ plan_id |-> plan_id, customer_id |-> customer_id,
      desired_quote_date |-> Today, quote_effective_days |-> 30,
      remarks |-> remarks,
      supply_points |-> supply_points, plants |-> plants ]

\* Requests that reference the plan and customer on file, and requests
\* whose plan_id or customer_id references no row.
RcPayloads ==
    { RcPayload(101, 501, NONE_STR, <<"SPN-A">>, << >>),
      RcPayload(101, 501, NONE_STR, RcFullSupplyPoints, RcFullPlants),
      RcPayload(999, 501, NONE_STR, <<"SPN-A">>, << >>),
      RcPayload(101, 999, NONE_STR, <<"SPN-A">>, <<RcPlant>>) }

InitRc ==
    /\ plans = (101 :> [name |-> "Flat (Seasonal)"])
    /\ agencies = (23 :> [number |-> "AG023", name |-> "Demo Agency"])
    /\ customers = (501 :> [name |-> "Demo Customer", agency_id |-> 23])
    /\ ppa_bundles = << >>
    /\ ppa_projects = << >>
    /\ ppa_supply_points = << >>
    /\ request = NoRequest
    /\ response = NoResponse
    /\ client = IdleClient
    /\ mapper = IdleMapper
    /\ sessions = NoSessions
    /\ items = ImportedItems
    /\ handler = NoHandler
    /\ seeder = IdleSeeder
    /\ \E n \in 0..MaxContracts : contracts \in ContractTables(n)
    /\ recontract_estimates = << >>
    /\ recontract_supply_points = << >>
    /\ recontract_plants = << >>
    /\ id_seq = [est |-> 0, sp |-> 0, plant |-> 0]
    /\ rc = << >>

RcNewRequest ==
    /\ NextId(rc) <= MaxRequests
    /\ \E payload \in RcPayloads : RcBegin(payload)

RcStepGetPlan == \E r \in Requests : RcGetPlan(r)
RcStepGetCustomer == \E r \in Requests : RcGetCustomer(r)
RcStepFlushHeader == \E r \in Requests : RcFlushHeader(r)
RcStepInsertSupplyPoints == \E r \in Requests : RcInsertSupplyPoints(r)
RcStepInsertPlants == \E r \in Requests : RcInsertPlants(r)
RcStepExecuteUpdate == \E r \in Requests : RcExecuteUpdate(r)
RcStepUpdateRow == \E r \in Requests : RcUpdateRow(r)
RcStepCommit == \E r \in Requests : RcCommit(r)
RcStepReload == \E r \in Requests : RcReload(r)
RcStepReloadSupplyPoints == \E r \in Requests : RcReloadSupplyPoints(r)
RcStepReloadPlants == \E r \in Requests : RcReloadPlants(r)

\* A request in flight completes the round trip it awaits.
RcStep ==
    \/ RcStepGetPlan
    \/ RcStepGetCustomer
    \/ RcStepFlushHeader
    \/ RcStepInsertSupplyPoints
    \/ RcStepInsertPlants
    \/ RcStepExecuteUpdate
    \/ RcStepUpdateRow
    \/ RcStepCommit
    \/ RcStepReload
    \/ RcStepReloadSupplyPoints
    \/ RcStepReloadPlants

NextRc ==
    \/ RcNewRequest
    \/ RcStep

SpecRc == InitRc /\ [][NextRc]_vars

-----------------------------------------------------------------------------
(* Properties of the recontract write path *)

\* The request names a plan or a customer that is not on file.
InvalidReference(r) ==
    \/ rc[r].payload.plan_id \notin DOMAIN plans
    \/ rc[r].payload.customer_id \notin DOMAIN customers

\* C3: a request whose customer_id or plan_id references no row ends with a
\* 400 and writes nothing: every step it takes leaves the estimates, their
\* children, the contracts and the id sequences as they were, and takes it
\* from the plan's lookup to the customer's or to its end, answered 400.
C3_InvalidReferenceWritesNothing ==
    [][\A r \in Requests :
          (InvalidReference(r) /\ rc'[r] # rc[r]) =>
              /\ rc'[r].pc \in {"get_customer", "done"}
              /\ rc'[r].pc = "done" => rc'[r].status = 400
              /\ UNCHANGED rc_tables
              /\ UNCHANGED id_seq]_vars

\* A request with an unknown customer_id has been answered 400.
C3_Witness ==
    \E r \in Requests :
        /\ rc[r].payload.plan_id \in DOMAIN plans
        /\ rc[r].payload.customer_id \notin DOMAIN customers
        /\ rc[r].pc = "done"
        /\ rc[r].status = 400
        /\ rc[r].detail = "Invalid customer_id: 999"

\* The contract c is named by request r (its supply point number is one of
\* the request's).
Named(r, c) == contracts[c].supply_point_number \in Range(rc[r].payload.supply_points)

\* C4: the commit of a request turns exactly the contracts it names that
\* are UNDER_CONTRACT into RECONTRACT_ESTIMATE and leaves every other
\* contract as it is in every field; no other step changes a contract; and
\* once the request has succeeded none of the contracts it names is
\* UNDER_CONTRACT.
C4_BulkTransitionScope ==
    /\ [][ /\ \A r \in Requests :
                (rc[r].pc = "commit" /\ rc'[r].pc = "reload") =>
                    /\ DOMAIN contracts' = DOMAIN contracts
                    /\ \A c \in DOMAIN contracts :
                          contracts'[c] =
                              IF Named(r, c) /\ contracts[c].status = "UNDER_CONTRACT"
                              THEN [contracts[c] EXCEPT !.status = "RECONTRACT_ESTIMATE"]
                              ELSE contracts[c]
           /\ (\A r \in Requests : ~(rc[r].pc = "commit" /\ rc'[r].pc = "reload"))
                  => UNCHANGED contracts ]_vars
    /\ [](\A r \in Requests :
             rc[r].status = 201 =>
                 \A c \in DOMAIN contracts :
                     Named(r, c) => contracts[c].status # "UNDER_CONTRACT")

\* A request has succeeded that named a contract under contract, now in
\* RECONTRACT_ESTIMATE, and a RECONTRACTED one, left as it was.
C4_Witness ==
    \E r \in Requests :
        /\ rc[r].status = 201
        /\ \E c1 \in rc[r].updates :
              contracts[c1].status = "RECONTRACT_ESTIMATE"
        /\ \E c2 \in DOMAIN contracts \ rc[r].updates :
              Named(r, c2) /\ contracts[c2].status = "RECONTRACTED"

-----------------------------------------------------------------------------
(* Filters: list requests whose query string carries any of the filters    *)
(* customer_id, agency_id, region, quote_status, offer_status.              *)

MaxFilterBundles == 2
MaxFilterChildren == 1

\* The bundles on file differ in every filtered column.
FilterRows ==
    { BundleRow(501, 23, "KANTO", QuoteMember("DRAFT"), OfferMember("NONE"), 1, NULL, NULL, NULL),
      BundleRow(501, 24, "KANSAI", QuoteMember("PRICED"), OfferMember("NONE"), 1, NULL, NULL, NULL),
      BundleRow(502, 23, "KANTO", QuoteMember("PRICED"), OfferMember("WON"), 1, NULL, NULL, NULL),
      BundleRow(502, 24, "KANSAI", QuoteMember("DRAFT"), OfferMember("WON"), 1, NULL, NULL, NULL) }

\* The databases of the requests: any bundles of FilterRows, and up to
\* MaxFilterChildren projects and unlinked supply points of the first.
InitFilter ==
    \/ InitPpa
    \/ Seeded
    \/ \E nb \in 0..MaxFilterBundles, np \in 0..MaxFilterChildren, ns \in 0..MaxFilterChildren :
          \E b \in [1..nb -> FilterRows] :
              OnFile(b, Projects(np, [i \in 1..np |-> 1]),
                     SupplyPoints(ns, [i \in 1..ns |-> 1], [i \in 1..ns |-> NULL]))

\* GET /ppa_quotations?...&quote_status=..&offer_status=..: the handler
\* declares page, rows, sort_by, sort_order, customer_id, agency_id and
\* region; a query parameter it does not declare never reaches it.
QueryListRequest(page, rows, sort_by, sort_order, customer_id, agency_id, region, quote_status, offer_status) ==
    /\ client.phase = "idle"
    /\ ListBegin([ op |-> "list", page |-> page, rows |-> rows, sort_by |-> sort_by,
                   sort_order |-> sort_order, customer_id |-> customer_id,
                   agency_id |-> agency_id, region |-> region,
                   quote_status |-> quote_status, offer_status |-> offer_status ],
                 ListArgs(page, rows, sort_by, sort_order, customer_id, agency_id, region))
    /\ UNCHANGED <<HandlerRest, client>>

\* <<page, rows, sort_order>> of the requests
FilterPaging == {<<1, 20, "desc">>, <<1, 1, "asc">>, <<2, 1, "desc">>}

\* <<customer_id, agency_id, region, quote_status, offer_status>> of the
\* requests: no filter, each filter alone, two together, all five.
FilterQueries ==
    { <<NULL, NULL, NONE_STR, NONE_STR, NONE_STR>>,
      <<501, NULL, NONE_STR, NONE_STR, NONE_STR>>,
      <<NULL, 23, NONE_STR, NONE_STR, NONE_STR>>,
      <<NULL, NULL, "KANTO", NONE_STR, NONE_STR>>,
      <<NULL, NULL, NONE_STR, "PRICED", NONE_STR>>,
      <<NULL, NULL, NONE_STR, NONE_STR, "WON">>,
      <<501, 23, NONE_STR, NONE_STR, NONE_STR>>,
      <<502, 23, "KANTO", "PRICED", "WON">> }

FilterListRequest ==
    \E pg \in FilterPaging, q \in FilterQueries :
        QueryListRequest(pg[1], pg[2], "updated_at", pg[3], q[1], q[2], q[3], q[4], q[5])

NextFilter ==
    \/ FilterListRequest
    \/ ListStepFiltered
    \/ ListStepPage

SpecFilter == InitFilter /\ [][NextFilter]_vars

\* The bundles whose own columns equal every filter the request supplies.
Satisfying(q) ==
    {b \in DOMAIN ppa_bundles :
        /\ (q.customer_id # NULL => ppa_bundles[b].customer_id = q.customer_id)
        /\ (q.agency_id # NULL => ppa_bundles[b].agency_id = q.agency_id)
        /\ (q.region # NONE_STR => ppa_bundles[b].area = q.region)
        /\ (q.quote_status # NONE_STR => ppa_bundles[b].quote_status.name = q.quote_status)
        /\ (q.offer_status # NONE_STR => ppa_bundles[b].offer_status.name = q.offer_status)}

\* C11: in every list response total_count is the number of bundles on file
\* and filtered_count is the number of bundles that satisfy the filters the
\* request supplies, whatever the page, the page size, the sort and the
\* children of the bundles.
C11_CountsAreTrueTotals ==
    (request.op = "list" /\ response.kind = "list" /\ "quote_status" \in DOMAIN request) =>
        /\ response.total_count = Cardinality(DOMAIN ppa_bundles)
        /\ response.filtered_count = Cardinality(Satisfying(request))

\* C18: every returned item belongs to a bundle whose columns equal each
\* supplied filter (customer_id, agency_id, region, quote_status,
\* offer_status), and filtered_count counts every bundle that satisfies
\* them all.
C18_FiltersRestrict ==
    (request.op = "list" /\ response.kind = "list" /\ "quote_status" \in DOMAIN request) =>
        /\ \A i \in 1..Len(response.data) : response.data[i].id \in Satisfying(request)
        /\ response.filtered_count >= Cardinality(Satisfying(request))

-----------------------------------------------------------------------------
(* Bundles without children in the list *)

MaxZeroBundles == 2
MaxZeroProjects == 2
MaxZeroSps == 2

ZeroBundleRow ==
    BundleRow(501, 23, "KANTO", QuoteMember("DRAFT"), OfferMember("NONE"), 1, NULL, NULL, NULL)

\* The databases of the requests: bundles with any number of projects and
\* of unlinked supply points each, none included.
InitZero ==
    \/ InitPpa
    \/ Seeded
    \/ \E nb \in 0..MaxZeroBundles, np \in 0..MaxZeroProjects, ns \in 0..MaxZeroSps :
          \E pb \in [1..np -> 1..nb], sb \in [1..ns -> 1..nb] :
              OnFile([i \in 1..nb |-> ZeroBundleRow], Projects(np, pb),
                     SupplyPoints(ns, sb, [i \in 1..ns |-> NULL]))

ZeroListRequest == ListRequest(1, 20, "updated_at", "desc", NULL, NULL, NONE_STR)

NextZero ==
    \/ ZeroListRequest
    \/ ListStepFiltered
    \/ ListStepPage

SpecZero == InitZero /\ [][NextZero]_vars

\* The item of bundle b in the response, as a set (empty when b is omitted).
ItemsOf(b) == {response.data[i] : i \in {j \in 1..Len(response.data) : response.data[j].id = b}}

\* C12: in the unfiltered list every bundle on file appears; a bundle with
\* no supply point has num_of_spids = 0 and contract_power_kw = 0 (not
\* null), and every bundle's project_count is the number of its projects
\* (0 without projects) whatever the number of its supply points.
C12_ZeroChildrenAppear ==
    (request.op = "list" /\ response.kind = "list" /\ request.rows = 20
        /\ "quote_status" \notin DOMAIN request) =>
        \A b \in DOMAIN ppa_bundles :
            /\ Cardinality(ItemsOf(b)) = 1
            /\ \A it \in ItemsOf(b) :
                  /\ SupplyPointsOf(b) = {} =>
                        (it.num_of_spids = 0 /\ it.contract_power_kw = 0)
                  /\ it.contract_power_kw # NULL
                  /\ it.project_count = Cardinality(ProjectsOf(b))

\* A list has been served with a bundle that has projects but no supply
\* point and a bundle that has supply points but no project.
C12_Witness ==
    /\ request.op = "list"
    /\ response.kind = "list"
    /\ \E b1, b2 \in DOMAIN ppa_bundles :
          /\ SupplyPointsOf(b1) = {} /\ Cardinality(ProjectsOf(b1)) = 2
          /\ ProjectsOf(b2) = {} /\ Cardinality(SupplyPointsOf(b2)) >= 2
          /\ ItemsOf(b1) # {} /\ ItemsOf(b2) # {}

-----------------------------------------------------------------------------
(* scripts/seed_ppa.py: seed() runs in one session and commits twice, the   *)
(* DELETEs of the demo rows first and the INSERTs of all of them last.      *)
(* Every statement it awaits is a step; seeder.pc names the statement it    *)
(* awaits next (SeedStatements), "idle" when the script is not running.     *)

MaxSeedRuns == 2

\* The rows of the table t whose key is outside ids.
Without(t, ids) == [k \in DOMAIN t \ ids |-> t[k]]

\* The pc of seed() once the statement it awaits has completed.
SeedAfter ==
    IF SeedPos < Len(SeedStatements) THEN SeedStatements[SeedPos + 1] ELSE "idle"

\* The DELETE has to wait: a request's open transaction holds a key-share
\* lock on a row it deletes.
SeedDeleteWaits(stmt) ==
    CASE stmt = "delete_customers" ->
             \E r \in Requests : KeyShared(r) /\ rc[r].payload.customer_id \in CUSTOMER_IDS
      [] stmt = "delete_plans" ->
             \E r \in Requests : KeyShared(r) /\ rc[r].payload.plan_id \in PLAN_IDS
      [] OTHER -> FALSE

\* The DELETE raises IntegrityError: a row that the DELETEs leave references
\* a row it removes, through a foreign key that has no ON DELETE action.
\* The foreign key of ppa_supply_points.project_id is ON DELETE SET NULL
\* (the migration that adds the column), so the DELETE of the projects
\* never raises.
SeedDeleteFails(stmt) ==
    CASE stmt = "delete_customers" ->
             \/ \E c \in DOMAIN contracts : contracts[c].customer_id \in CUSTOMER_IDS
             \/ \E e \in DOMAIN recontract_estimates :
                   recontract_estimates[e].customer_id \in CUSTOMER_IDS
             \/ \E b \in DOMAIN ppa_bundles \ BUNDLE_IDS :
                   ppa_bundles[b].customer_id \in CUSTOMER_IDS
      [] stmt = "delete_agencies" ->
             \/ \E c \in DOMAIN customers \ CUSTOMER_IDS :
                   customers[c].agency_id \in AGENCY_IDS
             \/ \E b \in DOMAIN ppa_bundles \ BUNDLE_IDS :
                   ppa_bundles[b].agency_id \in AGENCY_IDS
      [] stmt = "delete_plans" ->
             \/ \E c \in DOMAIN contracts : contracts[c].plan_id \in PLAN_IDS
             \/ \E e \in DOMAIN recontract_estimates :
                   recontract_estimates[e].plan_id \in PLAN_IDS
             \/ \E b \in DOMAIN ppa_bundles \ BUNDLE_IDS :
                   ppa_bundles[b].plan_id \in PLAN_IDS
      [] OTHER -> FALSE

\* The script as an exception leaves it: the session is closed, the open
\* transaction is rolled back, and what an earlier commit has published
\* stays.
SeedRaised == [seeder EXCEPT !.pc = "idle", !.runs = @ + 1, !.flushed = {}]

\* One of the six DELETEs of seed(), the first of which starts the script.
\* The rows it deletes stay on file, locked, until the commit. A DELETE
\* that raises ends the script and nothing is committed.
SeedDelete ==
    /\ SeedPos \in 1..6
    /\ seeder.pc = "idle" => seeder.runs < MaxSeedRuns
    /\ ~SeedDeleteWaits(SeedStatements[SeedPos])
    /\ seeder' = IF SeedDeleteFails(SeedStatements[SeedPos])
                 THEN SeedRaised
                 ELSE [seeder EXCEPT !.pc = SeedAfter]
    /\ UNCHANGED <<ppa_vars, request, response, client, mapper, sessions, items, handler, rc_vars>>

\* The projects the DELETE of the projects removes.
SeedDeletedProjects ==
    {p \in DOMAIN ppa_projects : ppa_projects[p].bundle_id \in BUNDLE_IDS}

\* The first commit of seed(): the supply points and projects of the demo
\* bundles, the demo bundles, customers, agencies and plans are gone, and a
\* supply point of another bundle that referenced a deleted project has
\* project_id NULL (ON DELETE SET NULL).
SeedCommitCleanup ==
    /\ seeder.pc = "commit_cleanup"
    /\ ppa_supply_points' =
           [k \in {s \in DOMAIN ppa_supply_points :
                      ppa_supply_points[s].bundle_id \notin BUNDLE_IDS} |->
               IF ppa_supply_points[k].project_id \in SeedDeletedProjects
               THEN [ppa_supply_points[k] EXCEPT !.project_id = NULL]
               ELSE ppa_supply_points[k]]
    /\ ppa_projects' = Without(ppa_projects, SeedDeletedProjects)
    /\ ppa_bundles' = Without(ppa_bundles, BUNDLE_IDS)
    /\ customers' = Without(customers, CUSTOMER_IDS)
    /\ agencies' = Without(agencies, AGENCY_IDS)
    /\ plans' = Without(plans, PLAN_IDS)
    /\ seeder' = [seeder EXCEPT !.pc = SeedAfter]
    /\ UNCHANGED <<request, response, client, mapper, sessions, items, handler, rc_vars>>

\* The tables whose INSERT the flush the script awaits may send next. The
\* first flush holds the plans, the agencies and the customers: the unit of
\* work orders the INSERTs by the mappers, the agencies before the
\* customers that reference them, and the plans before, between or after.
SeedFlushNext ==
    IF seeder.pc = "flush_reference"
    THEN {t \in {"plans", "agencies", "customers"} \ seeder.flushed :
             t = "customers" => "agencies" \in seeder.flushed}
    ELSE {seeder.pc}

\* The INSERT into t raises IntegrityError: a row on file has the primary
\* key or the unique value (plans.name, agencies.number) of a row it
\* inserts. The supply points take their ids from the sequence.
SeedDuplicate(t) ==
    CASE t = "plans" ->
             \E p \in DOMAIN plans :
                 \/ p \in PLAN_IDS
                 \/ \E q \in PLAN_IDS : plans[p].name = ReferencePlans[q].name
      [] t = "agencies" ->
             \E a \in DOMAIN agencies :
                 \/ a \in AGENCY_IDS
                 \/ \E q \in AGENCY_IDS : agencies[a].number = ReferenceAgencies[q].number
      [] t = "customers" -> \E c \in DOMAIN customers : c \in CUSTOMER_IDS
      [] t = "insert_bundles" -> \E b \in DOMAIN ppa_bundles : b \in BUNDLE_IDS
      [] t = "insert_projects" -> \E p \in DOMAIN ppa_projects : p \in DOMAIN SeededProjects
      [] t = "insert_supply_points" ->
             \E i \in DOMAIN ppa_supply_points :
                 i \in (seeder.sp_seq + 1)..(seeder.sp_seq + Len(SeededSupplyPoints))

\* The sequence of the supply points after the INSERT of the twelve: the
\* id of each row is drawn as the row is inserted, so an INSERT that raises
\* has drawn the ids up to the first that is on file, and a sequence is not
\* rolled back.
SeedSpSeqAfter ==
    LET drawn == (seeder.sp_seq + 1)..(seeder.sp_seq + Len(SeededSupplyPoints))
        taken == drawn \cap DOMAIN ppa_supply_points
    IN  IF taken = {}
        THEN seeder.sp_seq + Len(SeededSupplyPoints)
        ELSE CHOOSE i \in taken : \A j \in taken : i <= j

\* One of the INSERTs the flushes of seed() send: the plans, the agencies
\* and the customers, the bundles, the projects, and with the last commit
\* the supply points, which take the next twelve ids of their sequence.
\* The rows stay in the open transaction. An INSERT of a key that is on
\* file raises and ends the script: the rows the first commit deleted stay
\* deleted, nothing is inserted, and the ids drawn from the sequence up to
\* the row that collides are not given back.
SeedFlush ==
    /\ SeedPos \in 8..11
    /\ \E t \in SeedFlushNext :
          seeder' =
              IF SeedDuplicate(t)
              THEN [SeedRaised EXCEPT
                       !.sp_seq = IF t = "insert_supply_points" THEN SeedSpSeqAfter ELSE @]
              ELSE IF /\ seeder.pc = "flush_reference"
                      /\ seeder.flushed \cup {t} # {"plans", "agencies", "customers"}
                   THEN [seeder EXCEPT !.flushed = @ \cup {t}]
                   ELSE [seeder EXCEPT
                            !.pc = SeedAfter,
                            !.flushed = {},
                            !.sp_seq = IF t = "insert_supply_points"
                                       THEN SeedSpSeqAfter ELSE @]
    /\ UNCHANGED <<ppa_vars, request, response, client, mapper, sessions, items, handler, rc_vars>>

\* The second commit of seed(): the reference rows, the three bundles, the
\* six projects and the twelve supply points become visible together.
SeedCommitInsert ==
    /\ seeder.pc = "commit_insert"
    /\ plans' = plans @@ ReferencePlans
    /\ agencies' = agencies @@ ReferenceAgencies
    /\ customers' = customers @@ ReferenceCustomers
    /\ ppa_bundles' = ppa_bundles @@ SeededBundles(seeder.runs + 1)
    /\ ppa_projects' = ppa_projects @@ SeededProjects
    /\ ppa_supply_points' = ppa_supply_points @@
           [i \in (seeder.sp_seq - Len(SeededSupplyPoints) + 1)..seeder.sp_seq |->
               SeededSupplyPoints[i - (seeder.sp_seq - Len(SeededSupplyPoints))]]
    /\ seeder' = [seeder EXCEPT !.pc = SeedAfter]
    /\ UNCHANGED <<request, response, client, mapper, sessions, items, handler, rc_vars>>

\* The two SELECTs whose result seed() prints; after the second the script
\* ends.
SeedReport ==
    /\ SeedPos \in 13..14
    /\ seeder' = [seeder EXCEPT !.pc = SeedAfter,
                                !.runs = IF seeder.pc = "select_ids" THEN @ + 1 ELSE @]
    /\ UNCHANGED <<ppa_vars, request, response, client, mapper, sessions, items, handler, rc_vars>>

\* seed() completes the statement it awaits.
SeedStep ==
    \/ SeedDelete
    \/ SeedCommitCleanup
    \/ SeedFlush
    \/ SeedCommitInsert
    \/ SeedReport

\* The requests the clients send while the script runs.
SeedListRequest ==
    \E rows \in {1, 20} : ListRequest(1, rows, "updated_at", "desc", NULL, NULL, NONE_STR)

SeedDetailRequest == \E id \in {9001, 9002} : DetailRequest(id)

NextSeed ==
    \/ SeedStep
    \/ SeedListRequest
    \/ ListStepFiltered
    \/ ListStepPage
    \/ SeedDetailRequest
    \/ DetailStepProjects

\* A row of ppa_bundles the script does not write.
OtherBundle ==
    [BundleRow(601, NULL, "Tokyo", QuoteMember("DRAFT"), OfferMember("NONE"), 1, NULL, NULL, NULL)
        EXCEPT !.plan_id = 201]

\* A database the script has not run on, with rows it does not write: a
\* plan, a customer and a bundle of theirs, with a project and a supply
\* point. The plan may carry the name of a plan of the script and the
\* project the id of a project of the script; the supply point has the id
\* the sequence gave it, or an id it was written with, ahead of the
\* sequence.
InitSeedOther ==
    /\ \E name \in {"Other plan", "Flat (Seasonal)"} : plans = (201 :> [name |-> name])
    /\ agencies = << >>
    /\ customers = (601 :> [name |-> "Other customer", agency_id |-> NULL])
    /\ ppa_bundles = (1 :> OtherBundle)
    /\ \E id \in {1, 12001} : ppa_projects = (id :> ProjectRow(1, 5))
    /\ \E sp \in {1, 5} :
          /\ ppa_supply_points = (sp :> SupplyPointRow(1, NULL, 100))
          /\ seeder = [IdleSeeder EXCEPT !.sp_seq = IF sp = 1 THEN 1 ELSE 0]
    /\ AppAtRest
    /\ NoRecontracts

\* A database the script has run on once, with a customer it does not
\* write, who may belong to an agency of the script, and a bundle of that
\* customer whose supply point may reference a project of a bundle of the
\* script.
InitSeedLinked ==
    /\ plans = (201 :> [name |-> "Other plan"]) @@ ReferencePlans
    /\ agencies = ReferenceAgencies
    /\ \E agency_id \in {NULL, 23} :
          customers = (601 :> [name |-> "Other customer", agency_id |-> agency_id])
                          @@ ReferenceCustomers
    /\ ppa_bundles = (1 :> OtherBundle) @@ SeededBundles(1)
    /\ ppa_projects = SeededProjects
    /\ \E ref \in {NULL, 22001} :
          ppa_supply_points =
              [i \in 1..(Len(SeededSupplyPoints) + 1) |->
                  IF i <= Len(SeededSupplyPoints) THEN SeededSupplyPoints[i]
                  ELSE SupplyPointRow(1, ref, 100)]
    /\ AppAtRest
    /\ seeder = [IdleSeeder EXCEPT !.runs = 1, !.sp_seq = Len(SeededSupplyPoints) + 1]
    /\ NoRecontracts

InitSeed ==
    \/ InitPpa
    \/ InitSeedOther
    \/ InitSeedLinked

SpecSeed == InitSeed /\ [][NextSeed]_vars

\* A list response whose counts and page come from different commits: no
\* bundle counted, a bundle on the page.
SeedMixedList ==
    /\ response.kind = "list"
    /\ response.total_count = 0
    /\ Len(response.data) > 0

\* A detail response whose header and projects come from different commits.
SeedMixedDetail ==
    /\ response.kind = "detail"
    /\ response.num_of_spids > 0
    /\ response.projects = << >>

-----------------------------------------------------------------------------
(* Recontract under failures: the seed script clears the reference rows    *)
(* while requests are in flight, and database round trips fail.             *)

RcStepFlushHeaderFk == \E r \in Requests : RcFlushHeaderFk(r)
RcStepDbFailure == \E r \in Requests : RcDbFailure(r)

MaxFailRequests == 1

\* A request that names the contract on file, with a repeated supply point
\* number and a plant, and one without a plant.
RcFailPayloads ==
    { RcPayload(101, 501, NONE_STR, <<"SPN-A", "SPN-A">>, <<RcPlant>>),
      RcPayload(101, 501, NONE_STR, <<"SPN-B", "SPN-A">>, << >>) }

RcFailNewRequest ==
    /\ NextId(rc) <= MaxFailRequests
    /\ \E payload \in RcFailPayloads : RcBegin(payload)

NextRcFail ==
    \/ RcFailNewRequest
    \/ RcStep
    \/ RcStepFlushHeaderFk
    \/ RcStepDbFailure
    \/ SeedStep

\* No contract on file, or one under contract for SPN-A.
InitRcFail ==
    /\ InitRc
    /\ DOMAIN contracts \subseteq {1}
    /\ \A c \in DOMAIN contracts :
          /\ contracts[c].supply_point_number = "SPN-A"
          /\ contracts[c].status = "UNDER_CONTRACT"

SpecRcFail == InitRcFail /\ [][NextRcFail]_vars

\* C13: a request that an integrity-constraint violation ended, at
\* whichever round trip the database raised it, was answered 400.
C13_IntegrityErrorIs400 ==
    \A r \in Requests :
        (rc[r].pc = "done" /\ rc[r].detail = "IntegrityError") => rc[r].status = 400

\* The rows of a child table that belong to the estimate of request r.
ChildrenOf(table, r) == {i \in DOMAIN table : table[i].estimate_id = rc[r].est_id}

\* Everything request r writes is on file.
AllPersisted(r) ==
    /\ rc[r].est_id \in DOMAIN recontract_estimates
    /\ Cardinality(ChildrenOf(recontract_supply_points, r)) = Len(rc[r].payload.supply_points)
    /\ Cardinality(ChildrenOf(recontract_plants, r)) = Len(rc[r].payload.plants) + 1
    /\ \A c \in rc[r].updates : contracts[c].status # "UNDER_CONTRACT"

\* Nothing request r writes is on file.
NonePersisted(r) ==
    /\ rc[r].est_id \notin DOMAIN recontract_estimates
    /\ ChildrenOf(recontract_supply_points, r) = {}
    /\ ChildrenOf(recontract_plants, r) = {}

\* The round trips of a request that follow its commit.
AfterCommit == {"reload", "reload_supply_points", "reload_plants"}

\* C14: the creation is all-or-nothing. At every moment each request has
\* either all its rows on file or none, and all of them when it has
\* succeeded; a request that ends at a round trip before or during its
\* commit leaves none on file and changes no table; and the contracts
\* change only in the step that commits a request together with its
\* header, so a request that fails before or during its commit changes no
\* contract.
C14_AllOrNothing ==
    /\ [](\A r \in Requests :
             /\ AllPersisted(r) \/ NonePersisted(r)
             /\ rc[r].status = 201 => AllPersisted(r))
    /\ [][\A r \in Requests :
             (rc[r].pc \notin AfterCommit /\ rc[r].pc # "done" /\ rc'[r].pc = "done") =>
                 /\ UNCHANGED rc_tables
                 /\ rc[r].est_id \notin DOMAIN recontract_estimates'
                 /\ \A i \in DOMAIN recontract_supply_points' :
                       recontract_supply_points'[i].estimate_id # rc[r].est_id
                 /\ \A i \in DOMAIN recontract_plants' :
                       recontract_plants'[i].estimate_id # rc[r].est_id]_vars
    /\ [][contracts' # contracts =>
             \E r \in Requests :
                 /\ rc[r].pc = "commit" /\ rc'[r].pc = "reload"
                 /\ rc[r].est_id \notin DOMAIN recontract_estimates
                 /\ rc[r].est_id \in DOMAIN recontract_estimates']_vars

\* One request has failed after its header was flushed and left nothing,
\* in a state reached with contracts under contract on file that it named.
C14_Witness ==
    \E r \in Requests :
        /\ rc[r].pc = "done"
        /\ rc[r].status = 500
        /\ rc[r].est_id # NULL
        /\ NonePersisted(r)
        /\ \E c \in DOMAIN contracts : Named(r, c) /\ contracts[c].status = "UNDER_CONTRACT"

-----------------------------------------------------------------------------
(* The children of a created estimate *)

\* The supply point numbers of a sequence of rows, counted with repetition.
SpnBag(rows, field) ==
    [s \in {rows[i][field] : i \in DOMAIN rows} |->
        Cardinality({i \in DOMAIN rows : rows[i][field] = s})]

\* C15: a request answered 201 that supplied n supply points (duplicates
\* included) and m plants has exactly n supply point rows and m + 1 plant
\* rows on file under its estimate, one of them the implicit scenario of
\* 0.0 MW without a unit price, and its response lists the n and the m + 1
\* children, each with its own generated id.
C15_ChildrenCounts ==
    \A r \in Requests :
        rc[r].status = 201 =>
            LET n   == Len(rc[r].payload.supply_points)
                m   == Len(rc[r].payload.plants)
                sps == ChildrenOf(recontract_supply_points, r)
                pls == ChildrenOf(recontract_plants, r)
            IN /\ Cardinality(sps) = n
               /\ Cardinality(pls) = m + 1
               /\ \E i \in pls : /\ recontract_plants[i].capacity_mw = 0
                                 /\ recontract_plants[i].ppa_unit_price_yen_per_kwh = NULL
               /\ rc[r].body.id = rc[r].est_id
               /\ {rc[r].body.supply_points[i].id : i \in DOMAIN rc[r].body.supply_points} = sps
               /\ Len(rc[r].body.supply_points) = n
               /\ {rc[r].body.plants[i].id : i \in DOMAIN rc[r].body.plants} = pls
               /\ Len(rc[r].body.plants) = m + 1
               /\ SpnBag(rc[r].body.supply_points, "supply_point_number")
                      = [s \in Range(rc[r].payload.supply_points) |->
                            Cardinality({i \in DOMAIN rc[r].payload.supply_points :
                                            rc[r].payload.supply_points[i] = s})]

\* A request that supplied 20 supply points, with repetitions, and 3
\* plants has been answered 201.
C15_Witness ==
    \E r \in Requests :
        /\ rc[r].status = 201
        /\ rc[r].payload.supply_points = RcFullSupplyPoints
        /\ Len(rc[r].payload.plants) = MaxPlants
        /\ Len(rc[r].body.supply_points) = MaxSupplyPoints
        /\ Len(rc[r].body.plants) = MaxPlants + 1

-----------------------------------------------------------------------------
(* Reading estimates back *)

MaxGetRequests == 2

\* A small request with remarks, the largest request, which repeats supply
\* point numbers, and one whose customer is not on file.
RcGetPayloads ==
    << RcPayload(101, 501, "memo", <<"SPN-A">>, << >>),
       RcPayload(101, 501, NONE_STR, RcFullSupplyPoints, RcFullPlants),
       RcPayload(101, 999, NONE_STR, <<"SPN-A">>, <<RcPlant>>) >>

\* The bodies are sent in turn.
RcGetNewRequest ==
    /\ NextId(rc) <= MaxGetRequests
    /\ RcBegin(RcGetPayloads[((NextId(rc) - 1) % Len(RcGetPayloads)) + 1])

RcGetEstimate == \E e \in 1..(MaxGetRequests + 1) : GetEstimate(e)

NextRcGet ==
    \/ RcGetNewRequest
    \/ RcStep
    \/ RcGetEstimate
    \/ GetEstimateSupplyPoints
    \/ GetEstimatePlants

\* One contract under contract for SPN-A is on file.
InitRcGet ==
    /\ InitRc
    /\ DOMAIN contracts = {1}
    /\ contracts[1].supply_point_number = "SPN-A"
    /\ contracts[1].status = "UNDER_CONTRACT"

SpecRcGet == InitRcGet /\ [][NextRcGet]_vars

\* Two estimate bodies with the same header fields, the same supply points
\* and the same plants.
SameEstimate(a, b) ==
    /\ a.id = b.id
    /\ a.plan_id = b.plan_id
    /\ a.customer_id = b.customer_id
    /\ a.desired_quote_date = b.desired_quote_date
    /\ a.quote_effective_days = b.quote_effective_days
    /\ a.remarks = b.remarks
    /\ Range(a.supply_points) = Range(b.supply_points)
    /\ Len(a.supply_points) = Len(b.supply_points)
    /\ Range(a.plants) = Range(b.plants)
    /\ Len(a.plants) = Len(b.plants)

\* C16: whenever get_estimate is served for the id a creation returned
\* with its 201, in whatever later state, it answers 200 with the header,
\* supply points and plants of the creation response; served for an id
\* that no creation has committed, it answers 404.
C16_RoundTrip ==
    [][(request'.op = "get_estimate" /\ <<request, response>>' # <<request, response>>) =>
          LET e == request'.estimate_id IN
          /\ \A r \in Requests :
                (rc[r].status = 201 /\ rc[r].body.id = e) =>
                    /\ response'.status = 200
                    /\ SameEstimate(response'.body, rc[r].body)
          /\ e \notin DOMAIN recontract_estimates => response'.status = 404]_vars

\* get_estimate has answered 200 for the id of a creation with remarks
\* and one supply point, and a creation of 20 supply points and 4 plants
\* with a later id has been answered 201 too: two estimates, each with its
\* own children, are on file.
C16_Witness ==
    /\ request.op = "get_estimate"
    /\ response.status = 200
    /\ response.body.remarks = "memo"
    /\ Len(response.body.supply_points) = 1
    /\ Len(response.body.plants) = 1
    /\ \E r1, r2 \in Requests :
          /\ rc[r1].status = 201 /\ rc[r2].status = 201
          /\ rc[r1].body.id = request.estimate_id
          /\ rc[r2].body.id > rc[r1].body.id
          /\ Len(rc[r2].body.supply_points) = MaxSupplyPoints
          /\ Len(rc[r2].body.plants) = MaxPlants + 1

-----------------------------------------------------------------------------
(* Request bodies against the schema RecontractEstimateIn *)

\* Field(default=None, max_length=500)
MaxRemarks == 500

\* Remarks of 500 characters.
RcLongRemarks ==
    LET x4   == "xxxx"
        x16  == x4 \o x4 \o x4 \o x4
        x32  == x16 \o x16
        x64  == x32 \o x32
        x128 == x64 \o x64
        x256 == x128 \o x128
    IN  x256 \o x128 \o x64 \o x32 \o x16 \o x4

\* The validator of desired_quote_date: today <= v <= today + 31 days.
within_one_month(v) == ~(v < Today \/ v > Today + 31)

\* The schema without the validator of desired_quote_date.
RecontractEstimateInAnyDate(payload) ==
    /\ payload.quote_effective_days \in QuoteEffectiveDays
    /\ payload.remarks = NONE_STR \/ Len(payload.remarks) <= MaxRemarks
    /\ Len(payload.supply_points) >= 1
    /\ Len(payload.supply_points) <= MaxSupplyPoints
    /\ Len(payload.plants) <= MaxPlants

\* The body parses as RecontractEstimateIn.
RecontractEstimateIn(payload) ==
    /\ within_one_month(payload.desired_quote_date)
    /\ payload.quote_effective_days \in QuoteEffectiveDays
    /\ payload.remarks = NONE_STR \/ Len(payload.remarks) <= MaxRemarks
    /\ Len(payload.supply_points) >= 1
    /\ Len(payload.supply_points) <= MaxSupplyPoints
    /\ Len(payload.plants) <= MaxPlants

\* POST /recontracts: the body is validated against the schema before the
\* handler is called; a body that does not parse is answered 422 and the
\* handler never runs.
RcSubmit(payload) ==
    IF RecontractEstimateIn(payload)
    THEN RcBegin(payload)
    ELSE /\ rc' = rc @@ (NextId(rc) :>
                    [ pc |-> "done", payload |-> payload, est_id |-> NULL,
                      sp_ids |-> << >>, plant_ids |-> << >>, todo |-> {},
                      waiting |-> NULL, updates |-> {},
                      loaded |-> << >>, status |-> 422, detail |-> "RequestValidationError", body |-> << >> ])
         /\ UNCHANGED <<ppa_vars, request, response, client, mapper, aux_vars, rc_tables, id_seq>>

MaxInRequests == 1

RcInBase == RcPayload(101, 501, NONE_STR, <<"SPN-A">>, <<RcPlant>>)

\* Bodies on and beyond each limit of the schema.
RcInPayloads ==
    { RcInBase,
      [RcInBase EXCEPT !.desired_quote_date = Today - 1],
      [RcInBase EXCEPT !.desired_quote_date = Today + 31],
      [RcInBase EXCEPT !.desired_quote_date = Today + 32],
      [RcInBase EXCEPT !.quote_effective_days = 60],
      [RcInBase EXCEPT !.quote_effective_days = 45],
      [RcInBase EXCEPT !.supply_points = << >>],
      [RcInBase EXCEPT !.supply_points = RcFullSupplyPoints],
      [RcInBase EXCEPT !.supply_points = RcFullSupplyPoints \o <<"SPN-A">>],
      [RcInBase EXCEPT !.plants = RcFullPlants],
      [RcInBase EXCEPT !.plants = << >>],
      [RcInBase EXCEPT !.desired_quote_date = Today + 31, !.quote_effective_days = 60],
      [RcInBase EXCEPT !.supply_points = RcFullSupplyPoints, !.plants = RcFullPlants],
      [RcInBase EXCEPT !.supply_points = <<"SPN-B">>],
      [RcInBase EXCEPT !.quote_effective_days = 0],
      [RcInBase EXCEPT !.remarks = "memo"],
      [RcInBase EXCEPT !.remarks = RcLongRemarks],
      [RcInBase EXCEPT !.remarks = RcLongRemarks \o "x"],
      [RcInBase EXCEPT !.plants = RcFullPlants \o <<RcPlant>>] }

RcInNewRequest ==
    /\ NextId(rc) <= MaxInRequests
    /\ \E payload \in RcInPayloads : RcSubmit(payload)

NextRcIn ==
    \/ RcInNewRequest
    \/ RcStep

SpecRcIn == InitRcGet /\ [][NextRcIn]_vars

\* The body is one the claim says is rejected.
OutOfLimits(payload) ==
    \/ payload.desired_quote_date < Today
    \/ payload.desired_quote_date > Today + 31
    \/ payload.quote_effective_days \notin {30, 60}
    \/ Len(payload.supply_points) = 0
    \/ Len(payload.supply_points) > 20
    \/ Len(payload.plants) > 3

\* C17: a request whose desired quote date is outside [today, today + 31],
\* whose quote validity is not 30 or 60, with 0 or more than 20 supply
\* points, or with more than 3 plants, is answered with a client error (4xx)
\* as soon as it arrives, takes no step of the handler, and its arrival
\* changes no table and draws no id.
C17_OutOfLimitsRejected ==
    /\ [](\A r \in Requests :
             OutOfLimits(rc[r].payload) =>
                 /\ rc[r].pc = "done"
                 /\ rc[r].status \in 400..499
                 /\ rc[r].est_id = NULL
                 /\ rc[r].updates = {}
                 /\ NonePersisted(r))
    /\ [][\A r \in DOMAIN rc' \ DOMAIN rc :
             OutOfLimits(rc'[r].payload) => UNCHANGED <<rc_tables, id_seq>>]_vars

\* A request with 21 supply points has been rejected with 422 while a
\* contract it names is under contract.
C17_Witness ==
    /\ \E r \in Requests :
          /\ Len(rc[r].payload.supply_points) = MaxSupplyPoints + 1
          /\ rc[r].status = 422
          /\ \E c \in DOMAIN contracts : Named(r, c) /\ contracts[c].status = "UNDER_CONTRACT"

-----------------------------------------------------------------------------
(* The region table *)

\* The nine grid regions, in the order of their ids 1..9.
NineRegions ==
    <<"HOKKAIDO", "TOHOKU", "KANTO", "CHUBU", "HOKURIKU", "KANSAI", "CHUGOKU",
      "SHIKOKU", "KYUSHU">>

\* C20: the region lookup ignores letter case and gives each of the nine
\* grid regions its id, Hokkaido 1 through Kyushu 9: an area code that is,
\* in upper case, the i-th region maps to region_id i, and two spellings of
\* one code map to the same triplet.
C20_NineRegions ==
    mapper.fn = "region_from_area" =>
        /\ \A i \in 1..Len(NineRegions) :
              Upper(mapper.area) = NineRegions[i] => mapper.out[1] = i
        /\ \A a \in MapperAreas :
              (TruthyStr(a) /\ TruthyStr(mapper.area) /\ Upper(a) = Upper(mapper.area)
               /\ Upper(a) \in DOMAIN AREA_REGION_MAP)
                  => region_from_area(a) = mapper.out

-----------------------------------------------------------------------------
(* The sort keys of the list *)

MaxSortBundles == 2

\* Bundles that differ in every column a sort key names, with updated_at
\* running against the order of the ids.
SortRows ==
    { [BundleRow(501, 23, "KANTO", QuoteMember("DRAFT"), OfferMember("NONE"),
                 3, 20, NULL, NULL) EXCEPT !.plan_id = 101],
      [BundleRow(502, 23, "HOKKAIDO", QuoteMember("DRAFT"), OfferMember("NONE"),
                 2, 10, NULL, NULL) EXCEPT !.plan_id = 103],
      [BundleRow(503, 23, "KANSAI", QuoteMember("DRAFT"), OfferMember("NONE"),
                 1, NULL, NULL, NULL) EXCEPT !.plan_id = 102] }

InitSort ==
    \/ InitPpa
    \/ Seeded
    \/ \E nb \in 0..MaxSortBundles :
          \E b \in [1..nb -> SortRows] : OnFile(b, << >>, << >>)

\* The sort keys the clients send.
SortKeys == {"updated_at", "id", "contract_start_date", "customer_name", "plan_name", "region"}

SortListRequest ==
    \E sort_by \in SortKeys, sort_order \in {"asc", "desc"} :
        ListRequest(1, 20, sort_by, sort_order, NULL, NULL, NONE_STR)

NextSort ==
    \/ SortListRequest
    \/ ListStepFiltered
    \/ ListStepPage

SpecSort == InitSort /\ [][NextSort]_vars

\* Collation rank of the plan names in the reference data.
PlanRank(name) ==
    CASE name = "100% green market linked price plan" -> 1
      [] name = "EcoBiz Plan (LV) + PPA"              -> 2
      [] name = "Flat (Seasonal)"                     -> 3
      [] OTHER                                        -> 4

\* Collation rank of the area codes of SortRows.
AreaRank(area) ==
    CASE area = "HOKKAIDO" -> 1
      [] area = "KANSAI"   -> 2
      [] area = "KANTO"    -> 3
      [] OTHER             -> 4

\* The value of sort key k in bundle b (NULL where the column is null).
KeyValue(b, k) ==
    CASE k = "updated_at"          -> ppa_bundles[b].updated_at
      [] k = "id"                  -> b
      [] k = "contract_start_date" -> ppa_bundles[b].contract_start_date
      [] k = "customer_name"       -> NameRank(customers[ppa_bundles[b].customer_id].name)
      [] k = "plan_name"           -> PlanRank(plans[ppa_bundles[b].plan_id].name)
      [] k = "region"              -> AreaRank(ppa_bundles[b].area)
      [] k = "region_id"           -> region_from_area(ppa_bundles[b].area)[1]

\* The items of the response run in the direction asked for by key k.
OrderedBy(k) ==
    \A i, j \in 1..Len(response.data) :
        LET x == KeyValue(response.data[i].id, k)
            y == KeyValue(response.data[j].id, k)
        IN (i < j /\ x # NULL /\ y # NULL) =>
               IF request.sort_order = "asc" THEN x <= y ELSE x >= y

\* C19: a list requested with sort key updated_at, id, contract_start_date,
\* customer_name, plan_name or region comes ordered by that key's own
\* column in the requested direction (region by the area code or by the
\* region id).
C19_SortByOwnColumn ==
    (request.op = "list" /\ response.kind = "list" /\ request.sort_by \in SortKeys) =>
        IF request.sort_by = "region"
        THEN OrderedBy("region") \/ OrderedBy("region_id")
        ELSE OrderedBy(request.sort_by)

-----------------------------------------------------------------------------
(* list_renewal_cases (api/contracts.py) *)

\* d.replace(day=k)
ReplaceDay(n, k) == LET t == Ord2Ymd(n) IN Ymd2Ord(t.y, t.m, k)

\* (first_of_month.replace(day=1) + timedelta(days=155)).replace(day=1)
target_month(today) == ReplaceDay(ReplaceDay(ReplaceDay(today, 1), 1) + 155, 1)

\* (target_month.replace(day=28) + timedelta(days=10)).replace(day=1)
target_month_end(today) == ReplaceDay(ReplaceDay(target_month(today), 28) + 10, 1)

\* The rows the SELECT returns when the handler runs on the date today.
list_renewal_cases(today) ==
    LET first == target_month(today)
        next  == target_month_end(today)
    IN {c \in DOMAIN contracts :
           /\ contracts[c].status = "UNDER_CONTRACT"
           /\ contracts[c].end_date >= first
           /\ contracts[c].end_date < next}

\* A class that drops the contract's id.
RenewalCaseOutNoId(contract_id, customer_name, supply_point_number, plan_name, end_date) ==
    [ contract_id         |-> NULL,
      customer_name       |-> customer_name,
      supply_point_number |-> supply_point_number,
      plan_name           |-> plan_name,
      end_date            |-> end_date ]

\* class RenewalCaseOut of schemas_recontract: the case summary of a
\* contract (contract id, customer name, supply point number, plan name,
\* end date), each field kept as given.
RenewalCaseOut(contract_id, customer_name, supply_point_number, plan_name, end_date) ==
    [ contract_id         |-> contract_id,
      customer_name       |-> customer_name,
      supply_point_number |-> supply_point_number,
      plan_name           |-> plan_name,
      end_date            |-> end_date ]

\* The case summary the handler builds of contract c.
RenewalCase(c) ==
    RenewalCaseOut(c,
                   IF contracts[c].customer_id \in DOMAIN customers
                   THEN customers[contracts[c].customer_id].name ELSE "",
                   contracts[c].supply_point_number,
                   IF contracts[c].plan_id \in DOMAIN plans
                   THEN plans[contracts[c].plan_id].name ELSE "",
                   contracts[c].end_date)

\* await list_renewal_cases(session) on the date today, the coroutine
\* called directly: main.py includes no router of api/contracts.py, so no
\* request reaches it. It awaits one SELECT and returns the list of the
\* case summaries.
RenewalCall(today) ==
    /\ request' = [op |-> "call", fn |-> "list_renewal_cases", today |-> today]
    /\ response' = [ kind |-> "return",
                     data |-> {RenewalCase(c) : c \in list_renewal_cases(today)} ]
    /\ UNCHANGED <<ppa_vars, client, mapper, aux_vars, rc_vars>>

\* The first and the last day of every month of 2024..2026.
RenewalEndDates ==
    UNION {{Ymd2Ord(y, m, 1), Ymd2Ord(y, m, DaysInMonth(y, m))} : y \in 2024..2026, m \in 1..12}

\* Contracts of every status ending on each of these dates, one supply
\* point each, numbered in the order of (end_date, status).
RenewalContracts ==
    LET ends == Ascending(RenewalEndDates)
        sts  == <<"UNDER_CONTRACT", "RECONTRACT_ESTIMATE", "RECONTRACTED">>
    IN [c \in 1..(3 * Len(ends)) |->
           [ plan_id |-> 101, customer_id |-> 501,
             status |-> sts[((c - 1) % 3) + 1],
             supply_point_number |-> "SPN-" \o ToString(c),
             end_date |-> ends[((c - 1) \div 3) + 1] ]]

\* Every day of 2024 (a leap year) and 2025.
RenewalDates == Ymd2Ord(2024, 1, 1)..Ymd2Ord(2025, 12, 31)

InitRenewal ==
    /\ plans = (101 :> [name |-> "Flat (Seasonal)"])
    /\ agencies = (23 :> [number |-> "AG023", name |-> "Demo Agency"])
    /\ customers = (501 :> [name |-> "Demo Customer", agency_id |-> 23])
    /\ ppa_bundles = << >>
    /\ ppa_projects = << >>
    /\ ppa_supply_points = << >>
    /\ request = NoRequest
    /\ response = NoResponse
    /\ client = IdleClient
    /\ mapper = IdleMapper
    /\ sessions = NoSessions
    /\ items = ImportedItems
    /\ handler = NoHandler
    /\ seeder = IdleSeeder
    /\ contracts = RenewalContracts
    /\ recontract_estimates = << >>
    /\ recontract_supply_points = << >>
    /\ recontract_plants = << >>
    /\ id_seq = [est |-> 0, sp |-> 0, plant |-> 0]
    /\ rc = << >>

\* The longest the clients go without asking, in days.
MaxDaysBetween == 1

\* date.today() never goes back: the function is first called on any of
\* the dates, and then again on the same day or within MaxDaysBetween days.
RenewalListRequest ==
    \E today \in RenewalDates :
        /\ request.op = "call" =>
               (today >= request.today /\ today <= request.today + MaxDaysBetween)
        /\ RenewalCall(today)

NextRenewal == RenewalListRequest

SpecRenewal == InitRenewal /\ [][NextRenewal]_vars

\* Months counted from year 0: the calendar month of the date n.
MonthOf(n) == LET t == Ord2Ymd(n) IN 12 * t.y + (t.m - 1)

\* C21: on every current date list_renewal_cases returns exactly the contracts
\* in status UNDER_CONTRACT whose end_date lies in the calendar month five
\* months after the current month: none in another status, none ending in
\* another month, none omitted.
C21_RenewalWindow ==
    (request.op = "call" /\ request.fn = "list_renewal_cases") =>
        {o.contract_id : o \in response.data} =
            {c \in DOMAIN contracts :
                /\ contracts[c].status = "UNDER_CONTRACT"
                /\ MonthOf(contracts[c].end_date) = MonthOf(request.today) + 5}

\* On the last day of February of a leap year the response holds the two
\* UNDER_CONTRACT contracts that end on the first and the last day of July,
\* while contracts of the other statuses end on the same days.
C21_Witness ==
    /\ request.op = "call"
    /\ request.fn = "list_renewal_cases"
    /\ request.today = Ymd2Ord(2024, 2, 29)
    /\ {o.end_date : o \in response.data} = {Ymd2Ord(2024, 7, 1), Ymd2Ord(2024, 7, 31)}
    /\ Cardinality(response.data) = 2
    /\ \E c \in DOMAIN contracts :
          /\ contracts[c].end_date = Ymd2Ord(2024, 7, 31)
          /\ contracts[c].status = "RECONTRACTED"

-----------------------------------------------------------------------------
(* The routes main.py registers itself *)

\* @app.get("/healthz")
healthz == [kind |-> "json", status |-> 200, body |-> [ok |-> TRUE]]

\* The answer to a GET of a path no route matches.
NotFound == [kind |-> "error", status |-> 404, detail |-> "Not Found"]

\* GET of a path without parameters that is not /ppa_quotations: the
\* router calls the handler registered for the path. The routes are those of
\* ppa_router and recontract_router, and /healthz.
Get(path) ==
    /\ client.phase = "idle"
    /\ request' = [op |-> "get", path |-> path]
    /\ response' = IF path = "/healthz" THEN healthz ELSE NotFound
    /\ UNCHANGED <<ppa_vars, client, mapper, aux_vars, rc_vars>>

\* The probes the clients and the test send.
HealthPaths == {"/health", "/healthz"}

HealthRequest == \E path \in HealthPaths : Get(path)

\* GET /contracts/renewal-cases, the path api/contracts.py declares for
\* list_renewal_cases: its router is included nowhere, no route matches.
RenewalCasesRequest == Get("/contracts/renewal-cases")

NextHealth ==
    \/ ZeroListRequest
    \/ ListStepFiltered
    \/ ListStepPage
    \/ HealthRequest
    \/ RenewalCasesRequest

SpecHealth == InitZero /\ [][NextHealth]_vars

\* C22: whatever is on file, GET /health is answered 200 with the body
\* {"status": "ok"}, and answering it changes no table.
C22_HealthOk ==
    /\ [](request.op = "get" /\ request.path = "/health" =>
             /\ response.status = 200
             /\ response.kind = "json"
             /\ response.body = [status |-> "ok"])
    /\ [][(request'.op = "get" /\ request' # request) =>
             UNCHANGED <<ppa_vars, rc_vars>>]_vars

-----------------------------------------------------------------------------
(* Ties in the sort column *)

\* C23: the page of a list response runs by the resolved sort column,
\* descending unless sort_order is asc, and items whose bundles are equal
\* in that column come in descending bundle id.
C23_TiesByIdDescending ==
    (request.op = "list" /\ response.kind = "list" /\ request.sort_by \in SortKeys) =>
        LET k == sort_col(request.sort_by) IN
        /\ OrderedBy(k)
        /\ \A i, j \in 1..Len(response.data) :
              (i < j /\ KeyValue(response.data[i].id, k) = KeyValue(response.data[j].id, k))
                  => response.data[i].id > response.data[j].id

-----------------------------------------------------------------------------
(* sort_by and sort_order as the clients send them *)

\* Query("desc", pattern="^(asc|desc)$"), as the unmounted variant of the
\* list declares sort_order.
SortOrderMatchesPattern(sort_order) == sort_order \in {"asc", "desc"}

\* sort_order: Optional[str] = Query("desc"): any text is accepted.
SortOrderAccepted(sort_order) == TRUE

\* The value the handler receives for a query parameter: the parameter's
\* default when the request does not carry it.
QueryDefault(sent, default) == IF sent = NONE_STR THEN default ELSE sent

UnprocessableEntity == [kind |-> "error", status |-> 422, detail |-> "RequestValidationError"]

\* GET /ppa_quotations with sort_by and sort_order as sent (NONE_STR: not
\* sent).
SortParamRequest(sort_by, sort_order) ==
    /\ client.phase = "idle"
    /\ LET by    == QueryDefault(sort_by, "updated_at")
           order == QueryDefault(sort_order, "desc")
           req   == [ op |-> "list", page |-> 1, rows |-> 20, sort_by |-> sort_by,
                      sort_order |-> sort_order, customer_id |-> NULL,
                      agency_id |-> NULL, region |-> NONE_STR ]
       IN IF ~SortOrderAccepted(order)
          THEN /\ handler.pc = "idle"
               /\ response' = UnprocessableEntity
               /\ request' = req
               /\ handler' = handler
          ELSE ListBegin(req, ListArgs(1, 20, by, order, NULL, NULL, NONE_STR))
    /\ UNCHANGED <<HandlerRest, client>>

SentSortBy == {NONE_STR, "", "bogus", "updated_at", "UPDATED_AT", "customer_name"}
SentSortOrder == {NONE_STR, "", "asc", "ASC", "desc", "up"}

MaxParamBundles == 2

InitParam ==
    \/ InitPpa
    \/ Seeded
    \/ \E nb \in 0..MaxParamBundles :
          \E b \in [1..nb -> SortRows] : OnFile(b, << >>, << >>)

ParamListRequest ==
    \E sort_by \in SentSortBy, sort_order \in SentSortOrder : SortParamRequest(sort_by, sort_order)

NextParam ==
    \/ ParamListRequest
    \/ ListStepFiltered
    \/ ListStepPage

SpecParam == InitParam /\ [][NextParam]_vars

\* The responses the list gives for sort_by and sort_order on the bundles
\* on file.
ResponsesFor(sort_by, sort_order) ==
    { list_ppa_quotations(1, 20, total_q, filtered_q(NULL, NULL, NONE_STR), o) :
          o \in ListOrders(sort_by, sort_order, NULL, NULL, NONE_STR) }

\* The text is asc in some letter case.
AscInAnyCase(s) == s \in {"asc", "ASC", "Asc", "aSc", "asC", "ASc", "aSC", "AsC"}

\* C24: a list request is never rejected (answered with a client error)
\* for its sort_by or sort_order; one whose sort_by is absent or outside
\* the recognised keys is answered as the same request with
\* sort_by=updated_at is, and one whose sort_order is not asc in any letter
\* case is answered as with sort_order=desc: the answer is one that request
\* can receive, and a list is in the order of updated_at in that direction.
C24_SortParamsNormalised ==
    request.op = "list" =>
        LET by    == IF request.sort_by = NONE_STR \/ LowerParam(request.sort_by) \notin SortKeys
                     THEN "updated_at" ELSE request.sort_by
            order == IF AscInAnyCase(request.sort_order) THEN "asc" ELSE "desc"
        IN /\ response.status \notin 400..499
           /\ response \in ResponsesFor(by, order)
           /\ (response.kind = "list" /\ by = "updated_at") =>
                  \A i, j \in 1..Len(response.data) :
                      i < j =>
                          LET x == ppa_bundles[response.data[i].id].updated_at
                              y == ppa_bundles[response.data[j].id].updated_at
                          IN IF order = "asc" THEN x <= y ELSE x >= y

\* A request with an unknown sort_by and an unknown sort_order has been
\* answered with two bundles that differ in updated_at, latest first.
C24_Witness ==
    /\ request.op = "list"
    /\ request.sort_by = "bogus"
    /\ request.sort_order = "up"
    /\ response.kind = "list"
    /\ Len(response.data) = 2
    /\ ppa_bundles[response.data[1].id].updated_at > ppa_bundles[response.data[2].id].updated_at

-----------------------------------------------------------------------------
(* Projects and their rollups in the detail *)

MaxRollupBundles == 2
MaxRollupProjects == 2
MaxRollupSps == 1

RollupBundle(i) ==
    BundleRow(501, 23, "KANTO", QuoteMember("DRAFT"), OfferMember("NONE"), i, NULL, NULL, NULL)

\* The databases of the requests. bundle_id and project_id of a supply
\* point are two foreign keys; the schema does not tie the project to the
\* bundle.
InitRollup ==
    \/ InitPpa
    \/ Seeded
    \/ \E nb \in 0..MaxRollupBundles, np \in 0..MaxRollupProjects, ns \in 0..MaxRollupSps :
          \E pb \in [1..np -> 1..nb], sb \in [1..ns -> 1..nb],
             sp \in [1..ns -> (1..np) \cup {NULL}] :
              OnFile([i \in 1..nb |-> RollupBundle(i)], Projects(np, pb),
                     SupplyPoints(ns, sb, sp))

RollupListRequest == ListRequest(1, 20, "updated_at", "desc", NULL, NULL, NONE_STR)

RollupDetailRequest == \E id \in 1..(MaxRollupBundles + 1) \cup BUNDLE_IDS : DetailRequest(id)

NextRollup ==
    \/ RollupListRequest
    \/ ListStepFiltered
    \/ ListStepPage
    \/ RollupDetailRequest
    \/ DetailStepProjects

SpecRollup == InitRollup /\ [][NextRollup]_vars

\* C25: the projects array of a detail response holds the projects whose
\* bundle_id is the requested bundle, each once, in ascending project id;
\* project_count is the length of the array, and it is the project_count
\* the list reports for the bundle.
C25_DetailProjects ==
    /\ response.kind = "detail" =>
          LET ids == [i \in 1..Len(response.projects) |-> response.projects[i].project_id]
          IN /\ Range(ids) = {p \in DOMAIN ppa_projects :
                                 ppa_projects[p].bundle_id = request.bundle_id}
             /\ \A i, j \in 1..Len(ids) : i < j => ids[i] < ids[j]
             /\ response.project_count = Len(response.projects)
             /\ response.project_count = ListItem(request.bundle_id).project_count
    /\ (request.op = "list" /\ response.kind = "list") =>
          \A i \in 1..Len(response.data) :
              response.data[i].project_count =
                  Cardinality({p \in DOMAIN ppa_projects :
                                  ppa_projects[p].bundle_id = response.data[i].id})

\* The detail of a bundle with two projects has been served while another
\* bundle is on file.
C25_Witness ==
    /\ response.kind = "detail"
    /\ response.project_count = 2
    /\ response.projects[1].project_id = 1
    /\ response.projects[2].project_id = 2
    /\ Cardinality(DOMAIN ppa_bundles) = 2

\* The sums of num_of_spids and of contract_power_kw over the first n
\* projects of the detail response.
RECURSIVE RollupSpids(_)
RollupSpids(n) == IF n = 0 THEN 0 ELSE response.projects[n].num_of_spids + RollupSpids(n - 1)

RECURSIVE RollupKw(_)
RollupKw(n) == IF n = 0 THEN 0 ELSE response.projects[n].contract_power_kw + RollupKw(n - 1)

\* C30: in every detail response each supply point counted for a project
\* belongs to the requested bundle: the projects' num_of_spids add up to at
\* most the number of the bundle's supply points and their
\* contract_power_kw to at most the bundle's total contract_kw, also when a
\* supply point names a project of another bundle than its own.
C30_RollupWithinBundle ==
    response.kind = "detail" =>
        /\ \A p \in ProjectsOf(request.bundle_id) :
              LinkedTo(p) \subseteq SupplyPointsOf(request.bundle_id)
        /\ RollupSpids(Len(response.projects)) <= Cardinality(SupplyPointsOf(request.bundle_id))
        /\ RollupKw(Len(response.projects)) <= KwTotal(SupplyPointsOf(request.bundle_id))

-----------------------------------------------------------------------------
(* Two creations at once over the same supply points *)

MaxConcRequests == 2

\* Requests that all name SPN-A and SPN-B.
RcConcPayloads ==
    << RcPayload(101, 501, NONE_STR, <<"SPN-A", "SPN-B">>, << >>),
       RcPayload(101, 501, NONE_STR, <<"SPN-B", "SPN-A">>, <<RcPlant>>) >>

\* The bodies are sent in turn.
RcConcNewRequest ==
    /\ NextId(rc) <= MaxConcRequests
    /\ RcBegin(RcConcPayloads[((NextId(rc) - 1) % Len(RcConcPayloads)) + 1])

NextRcConc ==
    \/ RcConcNewRequest
    \/ RcStep

\* Two contracts on file and under contract, for SPN-A and for SPN-B.
InitRcConc ==
    /\ InitRc
    /\ DOMAIN contracts = {1, 2}
    /\ contracts[1].supply_point_number = "SPN-A"
    /\ contracts[1].status = "UNDER_CONTRACT"
    /\ contracts[2].supply_point_number = "SPN-B"
    /\ contracts[2].status = "UNDER_CONTRACT"

\* The event loop resumes every coroutine whose await has completed, and
\* the database completes every statement that waits for no lock.
SpecRcConc ==
    /\ InitRcConc
    /\ [][NextRcConc]_vars
    /\ WF_vars(RcStepGetPlan)
    /\ WF_vars(RcStepGetCustomer)
    /\ WF_vars(RcStepFlushHeader)
    /\ WF_vars(RcStepInsertSupplyPoints)
    /\ WF_vars(RcStepInsertPlants)
    /\ WF_vars(RcStepExecuteUpdate)
    /\ WF_vars(RcStepUpdateRow)
    /\ WF_vars(RcStepCommit)
    /\ WF_vars(RcStepReload)
    /\ WF_vars(RcStepReloadSupplyPoints)
    /\ WF_vars(RcStepReloadPlants)

\* The supply point numbers of the requests that have ended.
NamedByEnded == UNION {Range(rc[r].payload.supply_points) : r \in {q \in Requests : rc[q].pc = "done"}}

\* C26: concurrent creations whose supply point numbers overlap all
\* complete, each with 201 and an estimate of its own with its children;
\* once they have ended no contract with a supply point number they name is
\* still UNDER_CONTRACT, and a contract only ever changes from
\* UNDER_CONTRACT to RECONTRACT_ESTIMATE.
C26_OverlappingCreations ==
    /\ <>[](\A r \in Requests : rc[r].pc = "done")
    /\ [](\A r \in Requests : rc[r].pc = "done" =>
             /\ rc[r].status = 201
             /\ AllPersisted(r)
             /\ \A o \in Requests \ {r} : rc[o].est_id # rc[r].est_id)
    /\ []((\A r \in Requests : rc[r].pc = "done") =>
             \A c \in DOMAIN contracts :
                 contracts[c].supply_point_number \in NamedByEnded =>
                     contracts[c].status # "UNDER_CONTRACT")
    /\ [][\A c \in DOMAIN contracts :
             contracts'[c].status # contracts[c].status =>
                 (contracts[c].status = "UNDER_CONTRACT"
                  /\ contracts'[c].status = "RECONTRACT_ESTIMATE")]_vars

-----------------------------------------------------------------------------
(* get_session (db.py): one AsyncSession per request that depends on it.    *)
(* sessions.req maps each such request to its position, its session and the *)
(* pooled connection the session holds; sessions.idle is the pool.          *)

SessRest == <<ppa_vars, request, response, client, mapper, rc_vars, items, handler, seeder>>

\* The ways a handler ends.
HandlerOutcomes == {"return", "HTTPException", "error"}

\* A dependency that hands every request one module-level session.
SessOpenShared ==
    /\ sessions' = [sessions EXCEPT
           !.req = @ @@ (NextId(sessions.req) :>
                       [pc |-> "handler", sid |-> 1, open |-> TRUE, conn |-> NULL, outcome |-> "none"]),
           !.made = IF @ = 0 THEN 1 ELSE @]
    /\ UNCHANGED SessRest

\* async with SessionLocal() as session: ... yield session. The factory
\* constructs a new AsyncSession for the request, which the handler
\* receives.
SessOpen ==
    /\ sessions' = [sessions EXCEPT
           !.req = @ @@ (NextId(sessions.req) :>
                       [pc |-> "handler", sid |-> sessions.made + 1, open |-> TRUE,
                        conn |-> NULL, outcome |-> "none"]),
           !.made = @ + 1]
    /\ UNCHANGED SessRest

\* The handler's first statement: the session checks a connection out of
\* the pool, an idle one or a new one.
SessCheckout(r) ==
    /\ sessions.req[r].pc = "handler"
    /\ sessions.req[r].conn = NULL
    /\ \/ \E c \in sessions.idle :
             sessions' = [sessions EXCEPT !.req[r].conn = c, !.idle = @ \ {c}]
       \/ /\ sessions.idle = {}
          /\ sessions' = [sessions EXCEPT !.req[r].conn = sessions.conns + 1,
                                          !.conns = @ + 1]
    /\ UNCHANGED SessRest

\* The handler returns or raises, having used the session or not; the
\* generator is resumed (or the exception thrown into it) at the yield.
SessHandlerEnds(r, outcome) ==
    /\ sessions.req[r].pc = "handler"
    /\ sessions' = [sessions EXCEPT !.req[r].pc = "finally", !.req[r].outcome = outcome]
    /\ UNCHANGED SessRest

\* session.close(): the session's connection goes back to the pool; closing
\* a closed session does nothing.
SessionClose(s, r) ==
    [s EXCEPT !.req[r].open = FALSE,
              !.req[r].conn = NULL,
              !.idle = IF s.req[r].conn = NULL THEN @ ELSE @ \cup {s.req[r].conn}]

\* finally: await session.close()
SessFinally(r) ==
    /\ sessions.req[r].pc = "finally"
    /\ sessions' = [SessionClose(sessions, r) EXCEPT !.req[r].pc = "exit"]
    /\ UNCHANGED SessRest

\* The exit of `async with SessionLocal()`: the session is closed again.
SessExit(r) ==
    /\ sessions.req[r].pc = "exit"
    /\ sessions' = [SessionClose(sessions, r) EXCEPT !.req[r].pc = "ended"]
    /\ UNCHANGED SessRest

MaxSessRequests == 2

SessNewRequest ==
    /\ NextId(sessions.req) <= MaxSessRequests
    /\ SessOpen

SessStepCheckout == \E r \in DOMAIN sessions.req : SessCheckout(r)
SessStepHandlerEnds == \E r \in DOMAIN sessions.req, outcome \in HandlerOutcomes : SessHandlerEnds(r, outcome)
SessStepFinally == \E r \in DOMAIN sessions.req : SessFinally(r)
SessStepExit == \E r \in DOMAIN sessions.req : SessExit(r)

NextSess ==
    \/ SessNewRequest
    \/ SessStepCheckout
    \/ SessStepHandlerEnds
    \/ SessStepFinally
    \/ SessStepExit

\* Every handler ends, and the framework runs the exit code of the
\* dependency of every request whose handler has ended.
SpecSess ==
    /\ InitPpa
    /\ [][NextSess]_vars
    /\ WF_vars(SessStepHandlerEnds)
    /\ WF_vars(SessStepFinally)
    /\ WF_vars(SessStepExit)

\* The requests whose dependency has not been exited yet.
InFlight == {r \in DOMAIN sessions.req : sessions.req[r].pc # "ended"}

\* C27: two requests in flight never have the same session nor the same
\* connection; every request's session is closed in the end, however its
\* handler ended, with its connection back in the pool; and no session is
\* open once its request has ended.
C27_SessionPerRequest ==
    /\ [](\A r1, r2 \in InFlight :
             r1 # r2 =>
                 /\ sessions.req[r1].sid # sessions.req[r2].sid
                 /\ (sessions.req[r1].conn # NULL => sessions.req[r1].conn # sessions.req[r2].conn))
    /\ [](\A r \in DOMAIN sessions.req :
             /\ sessions.req[r].conn \notin sessions.idle
             /\ sessions.req[r].pc = "ended" =>
                   (~sessions.req[r].open /\ sessions.req[r].conn = NULL))
    /\ <>[](\A r \in DOMAIN sessions.req :
               /\ sessions.req[r].pc = "ended"
               /\ ~sessions.req[r].open)
    /\ []((\A r \in DOMAIN sessions.req : sessions.req[r].pc = "ended") =>
             Cardinality(sessions.idle) = sessions.conns)

\* Two requests overlapped, each with a connection of its own, and have
\* both ended, one by returning and one by an unexpected error.
C27_Witness ==
    /\ DOMAIN sessions.req = {1, 2}
    /\ sessions.req[1].pc = "ended" /\ sessions.req[1].outcome = "return"
    /\ sessions.req[2].pc = "ended" /\ sessions.req[2].outcome = "error"
    /\ sessions.conns = 2
    /\ sessions.idle = {1, 2}

-----------------------------------------------------------------------------
(* The operations of the API that read or write the contracts *)

MaxApiRequests == 2

\* A creation, its repetition, and a creation that names one supply
\* point of theirs.
RcApiPayloads ==
    << RcPayload(101, 501, NONE_STR, <<"SPN-A", "SPN-B">>, <<RcPlant>>),
       RcPayload(101, 501, NONE_STR, <<"SPN-A", "SPN-B">>, <<RcPlant>>),
       RcPayload(101, 501, NONE_STR, <<"SPN-A">>, << >>) >>

\* The bodies are sent in turn.
RcApiNewRequest ==
    /\ NextId(rc) <= MaxApiRequests
    /\ RcBegin(RcApiPayloads[((NextId(rc) - 1) % Len(RcApiPayloads)) + 1])

\* A date whose renewal window is April 2026, where the contracts on file end.
RcApiDates == {Ymd2Ord(2025, 11, 30)}

RcApiRenewalCases == \E today \in RcApiDates : RenewalCall(today)

NextRcApi ==
    \/ RcApiNewRequest
    \/ RcStep
    \/ RcApiRenewalCases

\* Two contracts on file: one of any status for SPN-A, and one for SPN-B
\* that is RECONTRACTED.
InitRcApi ==
    /\ InitRc
    /\ DOMAIN contracts = {1, 2}
    /\ contracts[1].supply_point_number = "SPN-A"
    /\ contracts[2].supply_point_number = "SPN-B"
    /\ contracts[2].status = "RECONTRACTED"

SpecRcApi == InitRcApi /\ [][NextRcApi]_vars

\* Request o has committed and names the same supply point numbers as r.
CommittedSame(o, r) ==
    /\ o # r
    /\ rc[o].est_id \in DOMAIN recontract_estimates
    /\ Range(rc[o].payload.supply_points) = Range(rc[r].payload.supply_points)

\* C28: under the API the only change of a contract is its status going
\* from UNDER_CONTRACT to RECONTRACT_ESTIMATE: no contract is added or
\* removed, none leaves RECONTRACT_ESTIMATE or RECONTRACTED, and the commit
\* of a creation that repeats the supply point numbers of a creation
\* already committed changes no contract.
C28_StatusMonotonic ==
    /\ [][/\ DOMAIN contracts' = DOMAIN contracts
          /\ \A c \in DOMAIN contracts :
                contracts'[c] # contracts[c] =>
                    /\ contracts[c].status = "UNDER_CONTRACT"
                    /\ contracts'[c] = [contracts[c] EXCEPT !.status = "RECONTRACT_ESTIMATE"]]_vars
    /\ [][\A r \in Requests :
             (/\ rc[r].pc = "commit"
              /\ rc'[r].pc = "reload"
              /\ \E o \in Requests : CommittedSame(o, r))
                 => contracts' = contracts]_vars

\* A creation has been repeated with the same supply point numbers and has
\* succeeded too, a contract it names is RECONTRACT_ESTIMATE and another is
\* still RECONTRACTED, and list_renewal_cases has been called since.
C28_Witness ==
    /\ \E r1, r2 \in Requests :
          /\ r1 # r2
          /\ rc[r1].status = 201 /\ rc[r2].status = 201
          /\ rc[r1].payload.supply_points = rc[r2].payload.supply_points
          /\ rc[r1].updates # {}
          /\ rc[r2].updates = {}
    /\ contracts[1].status = "RECONTRACT_ESTIMATE"
    /\ contracts[2].status = "RECONTRACTED"
    /\ request.op = "call"

-----------------------------------------------------------------------------
(* api/items.py: the in-memory item store.  create_item and reset_items are *)
(* plain functions, which the framework runs on worker threads, and seed()  *)
(* is a public function any thread may call; the steps of a call are the    *)
(* reads and writes of the globals _seq and DB.                             *)

ItemsRest == <<ppa_vars, request, response, client, mapper, rc_vars, sessions, handler, seeder>>

\* _seq += 1, first half: the thread reads the global.
NextIdLoad(st, i) ==
    [st EXCEPT !.calls[i].tmp = st.seq, !.calls[i].pc = "store"]

\* _seq += 1, second half: the thread writes back what it read, plus one
\* (the value it read is not used again).
NextIdStore(st, i) ==
    [st EXCEPT !.seq = st.calls[i].tmp + 1, !.calls[i].tmp = 0, !.calls[i].pc = "return"]

\* return _seq: the thread reads the global again.
NextIdReturn(st, i) ==
    [st EXCEPT !.calls[i].id = st.seq, !.calls[i].pc = "put"]

\* DB[obj.id] = obj: a dict assignment, which replaces an item of the same id.
CreateItemPut(st, i) ==
    LET obj == st.calls[i]
    IN  [st EXCEPT !.DB = [k \in DOMAIN st.DB \cup {obj.id} |->
                              IF k = obj.id THEN obj.item ELSE st.DB[k]],
                   !.calls[i].pc = "done"]

samples ==
    << [name |-> "Solar kWh Pack (Residential)", price |-> 18],
       [name |-> "Battery Storage Add-on", price |-> 499],
       [name |-> "Green Tariff (Business)", price |-> 21] >>

\* DB.clear(), the first statement of reset_items(): the store is empty.
\* The creations called before it are marked as before the last reset.
reset_items(st, i) ==
    [st EXCEPT !.DB = << >>,
               !.calls = [j \in DOMAIN st.calls |->
                             IF j = i THEN [st.calls[j] EXCEPT !.pc = "zero"]
                             ELSE IF st.calls[j].fn = "create"
                                  THEN [st.calls[j] EXCEPT !.before_reset = TRUE]
                                  ELSE st.calls[j]]]

\* _seq = 0, the second statement of reset_items().
ResetSeq(st, i) == [st EXCEPT !.seq = 0, !.calls[i].pc = "seed"]

\* _seed(), the third statement of reset_items() and the only one of
\* seed(): `if DB: return` does nothing if DB has data;
\* else the loop over the samples starts with the first.
seed(st, i) ==
    IF DOMAIN st.DB # {}
    THEN [st EXCEPT !.calls[i].pc = "done"]
    ELSE [st EXCEPT !.calls[i].pc = "load", !.calls[i].k = 1, !.calls[i].item = samples[1]]

\* DB[obj.id] = obj in the loop of _seed(): the sample is stored and the
\* loop goes on with the next sample, or ends and the call returns None
\* (its locals are gone).
SeedPut(st, i) ==
    LET obj  == st.calls[i]
        done == [st EXCEPT !.DB = [k \in DOMAIN st.DB \cup {obj.id} |->
                                      IF k = obj.id THEN obj.item ELSE st.DB[k]],
                           !.calls[i].id = 0]
    IN  IF obj.k < Len(samples)
        THEN [done EXCEPT !.calls[i].pc = "load", !.calls[i].k = obj.k + 1,
                          !.calls[i].item = samples[obj.k + 1]]
        ELSE [done EXCEPT !.calls[i].pc = "done", !.calls[i].k = 0,
                          !.calls[i].item = samples[1]]

\* The calls of create_item, of reset_items and of seed(), and the calls
\* of the three together.
MaxItemCalls == 2
MaxItemResets == 1
MaxItemSeeds == 1
MaxItemThreads == 3

ItemInputs ==
    { [name |-> "Wind kWh Pack", price |-> 25],
      [name |-> "EV Charger Add-on", price |-> 1250] }

\* The threads that run fn.
ItemThreads(fn) == {i \in DOMAIN items.calls : items.calls[i].fn = fn}

\* The thread of the next call of fn: the calls of one function are
\* numbered as they start.
ItemThread(fn) == <<fn, Cardinality(ItemThreads(fn)) + 1>>

\* POST /items: a worker thread starts create_item(item).
CreateItemCall ==
    /\ Cardinality(DOMAIN items.calls) < MaxItemThreads
    /\ Cardinality(ItemThreads("create")) < MaxItemCalls
    /\ \E item \in ItemInputs :
          items' = [items EXCEPT !.calls = @ @@ (ItemThread("create") :>
                       [fn |-> "create", pc |-> "load", item |-> item, k |-> 0,
                        tmp |-> 0, id |-> 0, before_reset |-> FALSE])]
    /\ UNCHANGED ItemsRest

\* POST /items/_reset: a worker thread starts reset_items(), while
\* creations and other resets may be between two of their steps.
ResetItemsCall ==
    /\ Cardinality(DOMAIN items.calls) < MaxItemThreads
    /\ Cardinality(ItemThreads("reset")) < MaxItemResets
    /\ items' = [items EXCEPT !.calls = @ @@ (ItemThread("reset") :>
                    [fn |-> "reset", pc |-> "clear", item |-> samples[1], k |-> 0,
                     tmp |-> 0, id |-> 0, before_reset |-> FALSE])]
    /\ UNCHANGED ItemsRest

\* seed(), the public seeding function: a thread starts the call, which
\* is the call of _seed(), while creations and resets may be between two of
\* their steps.
SeedItemsCall ==
    /\ Cardinality(DOMAIN items.calls) < MaxItemThreads
    /\ Cardinality(ItemThreads("seed")) < MaxItemSeeds
    /\ items' = [items EXCEPT !.calls = @ @@ (ItemThread("seed") :>
                    [fn |-> "seed", pc |-> "seed", item |-> samples[1], k |-> 0,
                     tmp |-> 0, id |-> 0, before_reset |-> FALSE])]
    /\ UNCHANGED ItemsRest

ItemStepClear ==
    /\ \E i \in DOMAIN items.calls :
          /\ items.calls[i].pc = "clear"
          /\ items' = reset_items(items, i)
    /\ UNCHANGED ItemsRest

ItemStepZero ==
    /\ \E i \in DOMAIN items.calls :
          /\ items.calls[i].pc = "zero"
          /\ items' = ResetSeq(items, i)
    /\ UNCHANGED ItemsRest

ItemStepSeed ==
    /\ \E i \in DOMAIN items.calls :
          /\ items.calls[i].pc = "seed"
          /\ items' = seed(items, i)
    /\ UNCHANGED ItemsRest

ItemStepLoad ==
    /\ \E i \in DOMAIN items.calls :
          /\ items.calls[i].pc = "load"
          /\ items' = NextIdLoad(items, i)
    /\ UNCHANGED ItemsRest

ItemStepStore ==
    /\ \E i \in DOMAIN items.calls :
          /\ items.calls[i].pc = "store"
          /\ items' = NextIdStore(items, i)
    /\ UNCHANGED ItemsRest

ItemStepReturn ==
    /\ \E i \in DOMAIN items.calls :
          /\ items.calls[i].pc = "return"
          /\ items' = NextIdReturn(items, i)
    /\ UNCHANGED ItemsRest

ItemStepPut ==
    /\ \E i \in DOMAIN items.calls :
          /\ items.calls[i].pc = "put"
          /\ items' = IF items.calls[i].fn = "create"
                      THEN CreateItemPut(items, i) ELSE SeedPut(items, i)
    /\ UNCHANGED ItemsRest

NextItems ==
    \/ CreateItemCall
    \/ ResetItemsCall
    \/ SeedItemsCall
    \/ ItemStepClear
    \/ ItemStepZero
    \/ ItemStepSeed
    \/ ItemStepLoad
    \/ ItemStepStore
    \/ ItemStepReturn
    \/ ItemStepPut

SpecItems == InitPpa /\ [][NextItems]_vars

\* The creations called since the last seed or reset.
SinceReset == {i \in ItemThreads("create") : ~items.calls[i].before_reset}

\* C29: once every call has returned, the creations called since the
\* last seed or reset have pairwise distinct ids, each of their items is
\* stored under its id, and the store holds the three samples and one item
\* for each of them.
C29_DistinctIds ==
    (\A i \in DOMAIN items.calls : items.calls[i].pc = "done") =>
        /\ \A i, j \in SinceReset :
              i # j => items.calls[i].id # items.calls[j].id
        /\ \A i \in SinceReset :
              /\ items.calls[i].id \in DOMAIN items.DB
              /\ items.DB[items.calls[i].id] = items.calls[i].item
        /\ Cardinality(DOMAIN items.DB) = 3 + Cardinality(SinceReset)
====
